---- MODULE Spec2Model ----
(***************************************************************************)
(* Verification model of the multiwallet HD keychain (package base) and    *)
(* of the database transaction contract it runs on (package database).     *)
(*                                                                         *)
(* Keys are modelled as derivation paths: an extended private key is the   *)
(* tuple <<secret, child, child, ...>>, its public counterpart has the     *)
(* secret replaced by 0, and the nil key is the empty tuple.  addrFunc     *)
(* maps a chain-level child public key to the address <<chain, index>>.    *)
(*                                                                         *)
(* The second half models MockWallet (package bitcoincash): its in-memory  *)
(* stores, the ingest loop started by Start, and the operations that stage *)
(* their effects in the commit hook of a database transaction.             *)
(***************************************************************************)
EXTENDS Integers, Sequences, FiniteSets, TLC

\* ------------------------------------------------------------------ bounds
LookaheadWindowSize == 2
MaxIndex == 4
MaxDur == 2
MaxTimers == 2
MaxTxns == 2            \* random transaction ids drawn by wallet operations
MaxAddrs == 2           \* random addresses drawn by the wallet
MaxSubs == 1            \* channels handed out by SubscribeTransactions
MaxHeight == 1          \* heights of the blocks delivered
MaxTime == 2            \* seconds the clock runs

\* --------------------------------------------------------- program constants
defaultKdfRounds == 8192
defaultKeyLength == 32

feeEconomic == 250
feeNormal == 500
feePriority == 750

\* ------------------------------------------------------------- input domains
Passphrases == {1, 2}
Salts == {0, 1}
IVs == {0, 1}
MasterSecret == <<5>>
AccountKeys == {<<5>>, <<10>>}
InvalidChildSets == {{}, {<<0, 3>>, <<1, 3>>}}
Durations == 0 .. MaxDur

VARIABLES
    addrs,              \* address records of the coin (database table)
    coin,               \* the coin record (database table row)
    externalPrivkey,    \* Keychain.externalPrivkey, <<>> when nil
    internalPrivkey,    \* Keychain.internalPrivkey, <<>> when nil
    externalOnly,       \* Keychain.externalOnly
    disableMarkAsUsed,  \* Keychain.disableMarkAsUsed
    invalidChild,       \* the <<chain, index>> pairs whose derivation fails
    timers,             \* pending time.AfterFunc timers: remaining durations
    unlocked,           \* duration and elapsed time of the last successful Unlock
    passphrase,         \* the passphrase the coin record is encrypted with (0: none)
    last,               \* the last call: operation, arguments, error, result
    pre,                \* the keychain and database state before the last call
    track,              \* whether the histories of returned addresses and of lock use are kept
    returned,           \* an address returned by NewAddress/CurrentAddress before the last call, if kept
    armed,              \* the state before the last successful SetPassphase
    wAddrs,             \* MockWallet.addrs: address -> used
    utxos,              \* MockWallet.utxos: outpoint -> mockUtxo
    transactions,       \* MockWallet.transactions: id -> Transaction
    watchedAddrs,       \* MockWallet.watchedAddrs
    txSubs,             \* MockWallet.txSubs: the channels handed out, with what their consumers did
    blockSubs,          \* MockWallet.blockSubs: the channels handed out, with what their consumers did
    blockchainInfo,     \* MockWallet.blockchainInfo (its height)
    outgoing,           \* the transactions sent on MockWallet.outgoing, in order
    dbTx,               \* the database transactions: state and onCommit hook
    loop,               \* the goroutine of Start: where it is and what it holds
    done,               \* whether the channel w.done is closed
    rnd,                \* how many random transaction ids and addresses were drawn
    now,                \* time.Now(), in seconds
    wlast,              \* the last wallet call or loop step
    created,            \* the last multisig address created, and one created before it
    access,             \* what the last wallet step read and wrote, and how it held w.mtx, if kept
    spendCall           \* the last Spend that staged a hook: its arguments and the stores it started from

keychain == <<addrs, coin, externalPrivkey, internalPrivkey, externalOnly,
              disableMarkAsUsed, invalidChild, timers, unlocked, passphrase,
              last, pre, track, returned, armed>>

wallet == <<wAddrs, utxos, transactions, watchedAddrs, txSubs, blockSubs, blockchainInfo,
            outgoing, dbTx, loop, done, rnd, now, wlast, created, access, spendCall>>

vars == <<keychain, wallet>>

\* ------------------------------------------------------------------- errors
OK == "nil"
ErrEncryptedKeychain == "keychain is encrypted"
ErrInvalidPassphrase == "invalid passphrase"
ErrAlreadyEncrypted == "keychain already encrypted"
ErrNotEncrypted == "wallet is not encrypted"
ErrExternalOnly == "keychain is configured for external addresses only"
ErrRecordNotFound == "record not found"
ErrBase64 == "illegal base64 data"
ErrHdParse == "hdkeychain: invalid serialized extended key"
ErrDatabase == "database error"

NilKey == <<>>
NoAddr == <<>>

Max(S) == CHOOSE x \in S : \A y \in S : y <= x
Min(S) == CHOOSE x \in S : \A y \in S : x <= y

\* ------------------------------------------------------- key derivation (hd)
\* ExtendedKey.Child on a chain-level key fails at the invalid indices.
ChildValid(key, i) == ~(Len(key) = 2 /\ <<key[2], i>> \in invalidChild)

Child(key, i) == Append(key, i)

Neuter(key) == [j \in 1 .. Len(key) |-> IF j = 1 THEN 0 ELSE key[j]]

generateAccountPrivKeys(accountPrivKey) ==
    [external |-> Child(accountPrivKey, 0), internal |-> Child(accountPrivKey, 1)]

generateAccountPubKeys(accountPubKey) ==
    [external |-> Child(accountPubKey, 0), internal |-> Child(accountPubKey, 1)]

accountPubKey == Neuter(MasterSecret)

externalPubkey == generateAccountPubKeys(accountPubKey).external

internalPubkey == generateAccountPubKeys(accountPubKey).internal

\* The injected AddressFunc: a child public key <<0, chain, index>> to its address.
addrFunc(key) == <<key[2], key[3]>>

\* ------------------------------------------------------- database contract
\* Tx.Save: upsert of an address record, keyed by its address string.
Save(db, rec) == {x \in db : x.Addr # rec.Addr} \cup {rec}

UpdateKeepsStaged(old, staged, err) == staged

\* Database.Update: the staged writes are committed when fn returns nil and
\* rolled back when it returns an error.
Update(old, staged, err) == IF err = OK THEN staged ELSE old

\* Order("key_index desc").Where("change=?", change).First(&record)
LastRecord(db, change) ==
    LET recs == {r \in db : r.Change = change}
    IN  CHOOSE r \in recs : \A x \in recs : x.KeyIndex <= r.KeyIndex

HasRecords(db, change) == \E r \in db : r.Change = change

\* ------------------------------------------------------------ look-ahead
getLookaheadWindowsAllUnused(db) ==
    LET unused(ch) == Cardinality({r \in db : r.Change = ch /\ ~r.Used})
    IN  [internalUnused |-> unused(TRUE), externalUnused |-> unused(FALSE)]

getLookaheadWindows(db) ==
    LET lastUsed(ch) == Max({r.KeyIndex : r \in {x \in db : x.Change = ch /\ x.Used}} \cup {-1})
        unused(ch) == Cardinality({r \in db : r.Change = ch /\ ~r.Used
                                               /\ r.KeyIndex > lastUsed(ch)})
    IN  [internalUnused |-> unused(TRUE), externalUnused |-> unused(FALSE)]

RECURSIVE generateKeys(_, _, _, _)
\* The loop of createNewKeys: skip the indices whose derivation fails.
generateKeys(db, change, nextIndex, numKeys) ==
    LET pub == IF change THEN internalPubkey ELSE externalPubkey
    IN  IF numKeys <= 0 THEN db
        ELSE IF ~ChildValid(pub, nextIndex)
             THEN generateKeys(db, change, nextIndex + 1, numKeys)
             ELSE generateKeys(Save(db, [Addr |-> addrFunc(Child(pub, nextIndex)),
                                         KeyIndex |-> nextIndex,
                                         Change |-> change,
                                         Used |-> FALSE]),
                               change, nextIndex + 1, numKeys - 1)

createNewKeysCountsSkipped(db, change, numKeys) ==
    LET nextIndex == IF HasRecords(db, change)
                     THEN LastRecord(db, change).KeyIndex + 1 ELSE 0
        pub == IF change THEN internalPubkey ELSE externalPubkey
        skipped == {i \in nextIndex .. nextIndex + numKeys - 1 : ~ChildValid(pub, i)}
    IN  generateKeys(db, change, nextIndex, numKeys - Cardinality(skipped))

createNewKeys(db, change, numKeys) ==
    LET nextIndex == IF HasRecords(db, change)
                     THEN LastRecord(db, change).KeyIndex + 1 ELSE 0
    IN  generateKeys(db, change, nextIndex, numKeys)

extendKeychain(db) ==
    LET w == getLookaheadWindows(db)
        db1 == IF ~externalOnly /\ w.internalUnused < LookaheadWindowSize
               THEN createNewKeys(db, TRUE, LookaheadWindowSize - w.internalUnused)
               ELSE db
    IN  IF w.externalUnused < LookaheadWindowSize
        THEN createNewKeys(db1, FALSE, LookaheadWindowSize - w.externalUnused)
        ELSE db1

\* ------------------------------------------------- address operations (pure)
RECURSIVE nextValidIndex(_, _)
\* The retry loop of NewAddress: the first index from `index` on that derives.
nextValidIndex(key, index) ==
    IF ChildValid(key, index) THEN index ELSE nextValidIndex(key, index + 1)

\* Keychain.NewAddress: (staged database, error, returned address).
NewAddressFn(db, change) ==
    IF ~HasRecords(db, change)
    THEN [db |-> db, err |-> ErrRecordNotFound, ret |-> NoAddr]
    ELSE LET index == nextValidIndex(externalPubkey, LastRecord(db, change).KeyIndex + 1)
             address == addrFunc(Child(externalPubkey, index))
             newRecord == [Addr |-> address, KeyIndex |-> index,
                           Change |-> FALSE, Used |-> FALSE]
         IN  [db |-> Save(extendKeychain(db), newRecord), err |-> OK, ret |-> address]

CurrentAddressHighest(db, change) ==
    LET recs == {r \in db : ~r.Used /\ r.Change = change}
    IN  IF change /\ externalOnly THEN [err |-> ErrExternalOnly, ret |-> NoAddr]
        ELSE IF recs = {} THEN [err |-> ErrRecordNotFound, ret |-> NoAddr]
        ELSE [err |-> OK,
              ret |-> (CHOOSE r \in recs : \A x \in recs : x.KeyIndex <= r.KeyIndex).Addr]

\* Keychain.CurrentAddress: (error, returned address).
CurrentAddressFn(db, change) ==
    LET recs == {r \in db : ~r.Used /\ r.Change = change}
    IN  IF change /\ externalOnly THEN [err |-> ErrExternalOnly, ret |-> NoAddr]
        ELSE IF recs = {} THEN [err |-> ErrRecordNotFound, ret |-> NoAddr]
        ELSE [err |-> OK,
              ret |-> (CHOOSE r \in recs : \A x \in recs : r.KeyIndex <= x.KeyIndex).Addr]

\* Keychain.MarkAddressAsUsed: (staged database, error).
MarkAddressAsUsedFn(db, addr) ==
    IF disableMarkAsUsed THEN [db |-> db, err |-> OK]
    ELSE IF ~\E r \in db : r.Addr = addr THEN [db |-> db, err |-> ErrRecordNotFound]
    ELSE LET record == CHOOSE r \in db : r.Addr = addr
         IN  [db |-> extendKeychain(Save(db, [record EXCEPT !.Used = TRUE])), err |-> OK]

\* ------------------------------------------------------------ key crypter
RECURSIVE xor(_, _)
\* Bitwise exclusive or of two naturals (cipher.Stream.XORKeyStream).
xor(a, b) == IF a = 0 THEN b
             ELSE IF b = 0 THEN a
             ELSE 2 * xor(a \div 2, b \div 2) + (((a % 2) + (b % 2)) % 2)

\* pbkdf2.Key(pw, salt, rounds, keyLen, sha512.New): the derived AES key.
pbkdf2Key(pw, salt) == 2 * pw + salt

\* The CFB key stream of the block cipher keyed with dk, started at iv.
keyStream(dk, iv) == (dk + iv) % 16

XORKeyStream(dk, iv, data) == xor(data, keyStream(dk, iv))

\* base64(IV || ciphertext) of the serialized key `plain` (a one-element tuple).
encryptMasterKey(plain, pw, salt, iv) ==
    [b64 |-> TRUE, bytes |-> <<iv, XORKeyStream(pbkdf2Key(pw, salt), iv, plain[1])>>]

\* base64.StdEncoding.DecodeString: a serialized extended key is not base64.
base64Decodes(masterPriv) == masterPriv.b64

\* The bytes after the IV, decrypted in place with the key derived from pw.
decryptMasterKey(c, pw) ==
    <<XORKeyStream(pbkdf2Key(pw, c.Salt), c.MasterPriv.bytes[1], c.MasterPriv.bytes[2])>>

\* hd.NewKeyFromString succeeds on the strings whose checksum matches.
keyParses(str) == (str[1] % 4) = ((str[1] \div 4) % 4)

\* --------------------------------------------- passphrase operations (pure)
\* Each returns the staged coin record, the in-memory keys it leaves and the
\* error of the closure; saveErr is the outcome of the closure's tx.Save.
encryptedRecord(c, pw, salt, iv) ==
    [c EXCEPT !.MasterPriv = encryptMasterKey(c.MasterPriv.bytes, pw, salt, iv),
              !.EncryptedMasterKey = TRUE,
              !.KdfRounds = defaultKdfRounds,
              !.KdfKeyLen = defaultKeyLength,
              !.Salt = salt]

decryptedRecordKeepsCiphertext(c, plaintext) ==
    [c EXCEPT !.EncryptedMasterKey = FALSE]

decryptedRecord(c, plaintext) ==
    [c EXCEPT !.MasterPriv = [b64 |-> FALSE, bytes |-> plaintext],
              !.EncryptedMasterKey = FALSE]

SetPassphaseFn(c, ext, int, pw, salt, iv, saveErr) ==
    IF c.EncryptedMasterKey
    THEN [coin |-> c, ext |-> ext, int |-> int, err |-> ErrAlreadyEncrypted]
    ELSE [coin |-> encryptedRecord(c, pw, salt, iv), ext |-> NilKey, int |-> NilKey,
          err |-> IF saveErr THEN ErrDatabase ELSE OK]

ChangePassphraseKeepsOld(c, ext, int, old, new, salt, iv, saveErr) ==
    IF int # NilKey \/ ext # NilKey
    THEN [coin |-> c, ext |-> ext, int |-> int, err |-> ErrNotEncrypted]
    ELSE IF ~base64Decodes(c.MasterPriv)
    THEN [coin |-> c, ext |-> ext, int |-> int, err |-> ErrBase64]
    ELSE IF ~keyParses(decryptMasterKey(c, old))
    THEN [coin |-> c, ext |-> ext, int |-> int, err |-> ErrInvalidPassphrase]
    ELSE [coin |-> encryptedRecord([c EXCEPT !.MasterPriv.bytes = decryptMasterKey(c, old)],
                                   old, salt, iv),
          ext |-> ext, int |-> int,
          err |-> IF saveErr THEN ErrDatabase ELSE OK]

ChangePassphraseFn(c, ext, int, old, new, salt, iv, saveErr) ==
    IF int # NilKey \/ ext # NilKey
    THEN [coin |-> c, ext |-> ext, int |-> int, err |-> ErrNotEncrypted]
    ELSE IF ~base64Decodes(c.MasterPriv)
    THEN [coin |-> c, ext |-> ext, int |-> int, err |-> ErrBase64]
    ELSE IF ~keyParses(decryptMasterKey(c, old))
    THEN [coin |-> c, ext |-> ext, int |-> int, err |-> ErrInvalidPassphrase]
    ELSE [coin |-> encryptedRecord([c EXCEPT !.MasterPriv.bytes = decryptMasterKey(c, old)],
                                   new, salt, iv),
          ext |-> ext, int |-> int,
          err |-> IF saveErr THEN ErrDatabase ELSE OK]

RemovePassphraseWhileUnlocked(c, ext, int, pw, saveErr) ==
    IF ~base64Decodes(c.MasterPriv)
    THEN [coin |-> c, ext |-> ext, int |-> int, err |-> ErrBase64]
    ELSE IF ~keyParses(decryptMasterKey(c, pw))
    THEN [coin |-> c, ext |-> ext, int |-> int, err |-> ErrInvalidPassphrase]
    ELSE LET key == decryptMasterKey(c, pw)
         IN  [coin |-> decryptedRecord(c, key),
              ext |-> generateAccountPrivKeys(key).external,
              int |-> generateAccountPrivKeys(key).internal,
              err |-> IF saveErr THEN ErrDatabase ELSE OK]

RemovePassphraseFn(c, ext, int, pw, saveErr) ==
    IF int # NilKey \/ ext # NilKey
    THEN [coin |-> c, ext |-> ext, int |-> int, err |-> ErrNotEncrypted]
    ELSE IF ~base64Decodes(c.MasterPriv)
    THEN [coin |-> c, ext |-> ext, int |-> int, err |-> ErrBase64]
    ELSE IF ~keyParses(decryptMasterKey(c, pw))
    THEN [coin |-> c, ext |-> ext, int |-> int, err |-> ErrInvalidPassphrase]
    ELSE LET key == decryptMasterKey(c, pw)
         IN  [coin |-> decryptedRecord(c, key),
              ext |-> generateAccountPrivKeys(key).external,
              int |-> generateAccountPrivKeys(key).internal,
              err |-> IF saveErr THEN ErrDatabase ELSE OK]

\* Keychain.Unlock: the keys it leaves in memory, the error, and whether the
\* zeroize timer is scheduled.
UnlockFn(c, ext, int, pw) ==
    IF int # NilKey \/ ext # NilKey
    THEN [ext |-> ext, int |-> int, err |-> ErrNotEncrypted, timer |-> FALSE]
    ELSE IF ~base64Decodes(c.MasterPriv)
    THEN [ext |-> ext, int |-> int, err |-> ErrBase64, timer |-> FALSE]
    ELSE IF ~keyParses(decryptMasterKey(c, pw))
    THEN [ext |-> ext, int |-> int, err |-> ErrHdParse, timer |-> FALSE]
    ELSE LET key == decryptMasterKey(c, pw)
         IN  [ext |-> generateAccountPrivKeys(key).external,
              int |-> generateAccountPrivKeys(key).internal,
              err |-> OK, timer |-> TRUE]

\* The duration the zeroize timer of Unlock(pw, howLong) is scheduled with.
timerDelayLate(howLong) == howLong + 1

timerDelay(howLong) == howLong

\* The body of the timer's callback: the keys it leaves in memory.
zeroize(ext, int) == [ext |-> NilKey, int |-> NilKey]

\* Keychain.IsEncrypted
IsEncrypted(ext, int) == int = NilKey \/ ext = NilKey

KeyForAddressIgnoresChange(db, ext, int, addr, accountPrivKey) ==
    IF ~\E r \in db : r.Addr = addr THEN [err |-> ErrRecordNotFound, ret |-> NilKey]
    ELSE LET record == CHOOSE r \in db : r.Addr = addr
             derive == (ext = NilKey \/ int = NilKey) /\ accountPrivKey # NilKey
             e == IF derive THEN generateAccountPrivKeys(accountPrivKey).external ELSE ext
         IN  IF e = NilKey THEN [err |-> ErrEncryptedKeychain, ret |-> NilKey]
             ELSE [err |-> OK, ret |-> Child(e, record.KeyIndex)]

\* Keychain.KeyForAddress: (error, returned key).
KeyForAddressFn(db, ext, int, addr, accountPrivKey) ==
    IF ~\E r \in db : r.Addr = addr THEN [err |-> ErrRecordNotFound, ret |-> NilKey]
    ELSE LET record == CHOOSE r \in db : r.Addr = addr
             derive == (ext = NilKey \/ int = NilKey) /\ accountPrivKey # NilKey
             e == IF derive THEN generateAccountPrivKeys(accountPrivKey).external ELSE ext
             i == IF derive THEN generateAccountPrivKeys(accountPrivKey).internal ELSE int
         IN  IF record.Change
             THEN IF i = NilKey THEN [err |-> ErrEncryptedKeychain, ret |-> NilKey]
                  ELSE [err |-> OK, ret |-> Child(i, record.KeyIndex)]
             ELSE IF e = NilKey THEN [err |-> ErrEncryptedKeychain, ret |-> NilKey]
                  ELSE [err |-> OK, ret |-> Child(e, record.KeyIndex)]

\* ------------------------------------------------ wallet: data and encodings
\* A transaction id is a string <<bytes, form>>: hex.EncodeToString yields the
\* lower-case form, hex.DecodeString accepts every form but "bad".
hexEncodeToString(b) == <<b, "lower">>
hexDecodes(str) == str[2] # "bad"
hexDecodeString(str) == str[1]

SpendInfo(id, addr, amt) ==
    [ID |-> id, Address |-> addr, Amount |-> amt, IsRelevant |-> FALSE, IsWatched |-> FALSE]

Transaction(id, from, to) == [ID |-> id, From |-> from, To |-> to, Height |-> 0]

mockUtxo(op, addr, value) == [outpoint |-> op, address |-> addr, value |-> value, height |-> 0]

EmptyMap == [k \in {} |-> 0]
Put(f, k, v) == [x \in DOMAIN f \cup {k} |-> IF x = k THEN v ELSE f[x]]
Delete(f, K) == [x \in DOMAIN f \ K |-> f[x]]

RECURSIVE SumValues(_)
SumValues(S) ==
    IF S = {} THEN 0
    ELSE LET u == CHOOSE x \in S : TRUE IN u.value + SumValues(S \ {u})

RECURSIVE SumAmounts(_)
SumAmounts(infos) ==
    IF infos = <<>> THEN 0 ELSE Head(infos).Amount + SumAmounts(Tail(infos))

Range(f) == {f[x] : x \in DOMAIN f}

NoTxn == Transaction(hexEncodeToString(0), <<>>, <<>>)
NoHook == [kind |-> "nil", txn |-> NoTxn, del |-> {}, add |-> {}, addr |-> 0]
NoSpend ==
    [h |-> 0, id |-> NoTxn.ID, amt |-> 0, fee |-> 0, clean |-> FALSE,
     wAddrs |-> EmptyMap, utxos |-> EmptyMap, transactions |-> EmptyMap,
     watchedAddrs |-> {}, outgoing |-> <<>>]
TxHandles == {1}
\* the database transactions two callers hold open at the same time
ConcurrentTx == {1, 2}

\* A database transaction as the wallet sees it: open, committed or rolled
\* back, with the one onCommit closure it holds; while the closure is blocked
\* in a send to txSubs[next] the state is "notify".
OpenTx == [state |-> "open", onCommit |-> NoHook, next |-> 0, subs |-> 0]

\* The goroutine of Start: waiting in select, blocked in a send to txSubs[next]
\* with the lock held, or returned.
LoopSelect == [pc |-> "select", tx |-> NoTxn, next |-> 0, subs |-> 0, call |-> <<>>]

\* The history keeps the last call when it is an ingest step, a Spend, a
\* ReleaseFundsAfterTimeout, a Balance, a Commit or a Rollback.
WCall(op, h, err, id, ret) == [op |-> op, h |-> h, err |-> err, id |-> id, ret |-> ret]
NoRet ==
    [kind |-> "", stored |-> FALSE, watchedOnly |-> FALSE, balance |-> <<0, 0>>, subs |-> 0,
     expiry |-> 0]
WOther == WCall("other", 0, "nil", NoTxn.ID, NoRet)

\* The stores a Spend started from are kept until something else changes them.
touched(call) == [NoSpend EXCEPT !.h = call.h, !.id = call.id, !.amt = call.amt, !.fee = call.fee]

\* An access to a store of the wallet, with the mode in which the goroutine
\* holds w.mtx at that point: "exclusive" (Lock), "shared" (RLock) or "none".
Reads(stores, mode) == {[store |-> x, kind |-> "read", mode |-> mode] : x \in stores}
Writes(stores, mode) == {[store |-> x, kind |-> "write", mode |-> mode] : x \in stores}

\* A multisig call: its arguments, what it returned, and when it was made.
NoMultisig ==
    [op |-> "", keys |-> <<>>, threshold |-> 0, timeout |-> 0, timeoutKey |-> 0,
     addr |-> <<>>, redeemScript |-> <<>>, at |-> 0, addrs |-> 0]

\* A wallet that was constructed and started, before any call.
MockWalletStarted ==
    /\ wAddrs = EmptyMap
    /\ utxos = EmptyMap
    /\ transactions = EmptyMap
    /\ watchedAddrs = {}
    /\ txSubs = <<>>
    /\ blockSubs = <<>>
    /\ blockchainInfo = 0
    /\ outgoing = <<>>
    /\ dbTx = [h \in ConcurrentTx |-> OpenTx]
    /\ loop = LoopSelect
    /\ done = FALSE
    /\ rnd = [txids |-> 0, addrs |-> 0]
    /\ now = 0
    /\ wlast = WCall("Start", 0, OK, NoTxn.ID, NoRet)
    /\ spendCall = NoSpend
    /\ created = [prev |-> NoMultisig, last |-> NoMultisig]
    /\ access = {}

\* ------------------------------------------------------------ bookkeeping
Call(op, change, addr, pw, pw2, acct, dur, err, ret) ==
    [op |-> op, change |-> change, addr |-> addr, pw |-> pw, pw2 |-> pw2,
     acct |-> acct, dur |-> dur, err |-> err, ret |-> ret]

Snapshot ==
    [addrs |-> addrs, coin |-> coin, ext |-> externalPrivkey,
     int |-> internalPrivkey, pass |-> passphrase]

NoUnlock == [d |-> -1, elapsed |-> 0]

NoArm == [pw |-> 0, plain |-> <<>>, ext |-> NilKey, int |-> NilKey]

InBounds(db) == \A r \in db : r.KeyIndex <= MaxIndex

\* The history keeps one of the addresses handed out so far, any one of them:
\* each successful NewAddress/CurrentAddress result may replace the one kept.
Remembered ==
    IF track /\ last.op \in {"NewAddress", "CurrentAddress"} /\ last.err = OK
    THEN {returned, {last.ret}} ELSE {returned}

\* What every call records: itself, and the state it started from.
Record(call) ==
    /\ last' = call
    /\ pre' = Snapshot
    /\ returned' \in Remembered

config == <<externalOnly, disableMarkAsUsed, invalidChild, track, wallet>>
crypt == <<coin, externalPrivkey, internalPrivkey, timers, unlocked, passphrase, armed>>

\* The addresses a caller passes: the stored ones and one the wallet never derived.
Addresses == {r.Addr : r \in addrs} \cup {<<0, MaxIndex + 1>>}

plainRecord ==
    [MasterPriv |-> [b64 |-> FALSE, bytes |-> MasterSecret],
     EncryptedMasterKey |-> FALSE, Salt |-> 0, KdfRounds |-> 0, KdfKeyLen |-> 0]

\* --------------------------------------------------------------------- Init
InitHistory ==
    /\ MockWalletStarted
    /\ timers = <<>>
    /\ unlocked = NoUnlock
    /\ armed = NoArm
    /\ last = Call("NewKeychain", FALSE, NoAddr, 0, 0, NilKey, 0, OK, <<>>)
    /\ pre = [addrs |-> {}, coin |-> coin, ext |-> NilKey, int |-> NilKey, pass |-> passphrase]
    /\ returned = {}

\* NewKeychain, with any options, on a database that holds a plaintext coin
\* record and no address record yet.
Init ==
    /\ externalOnly \in BOOLEAN
    /\ disableMarkAsUsed \in BOOLEAN
    /\ invalidChild \in InvalidChildSets
    /\ addrs = extendKeychain({})
    /\ coin = plainRecord
    /\ passphrase = 0
    /\ externalPrivkey = generateAccountPrivKeys(MasterSecret).external
    /\ internalPrivkey = generateAccountPrivKeys(MasterSecret).internal
    /\ track = FALSE
    /\ InitHistory

\* NewKeychain with the default options on such a database; the addresses the
\* keychain hands out are remembered.
InitIssue ==
    /\ externalOnly = FALSE
    /\ disableMarkAsUsed = FALSE
    /\ invalidChild = {}
    /\ addrs = extendKeychain({})
    /\ coin = plainRecord
    /\ passphrase = 0
    /\ externalPrivkey = generateAccountPrivKeys(MasterSecret).external
    /\ internalPrivkey = generateAccountPrivKeys(MasterSecret).internal
    /\ track = TRUE
    /\ InitHistory

\* NewKeychain, with the default options, on a database whose coin record is
\* plaintext or was encrypted by an earlier session.
InitCrypt ==
    /\ externalOnly = FALSE
    /\ disableMarkAsUsed = FALSE
    /\ invalidChild = {}
    /\ addrs = extendKeychain({})
    /\ \E enc \in BOOLEAN, pw \in Passphrases, salt \in Salts, iv \in IVs :
          /\ coin = IF enc THEN encryptedRecord(plainRecord, pw, salt, iv) ELSE plainRecord
          /\ passphrase = IF enc THEN pw ELSE 0
          /\ externalPrivkey = IF enc THEN NilKey
                               ELSE generateAccountPrivKeys(MasterSecret).external
          /\ internalPrivkey = IF enc THEN NilKey
                               ELSE generateAccountPrivKeys(MasterSecret).internal
    /\ track = FALSE
    /\ InitHistory

\* ------------------------------------------------------- address operations
ExtendKeychain ==
    \E saveErr \in BOOLEAN :
        LET staged == extendKeychain(addrs)
            err == IF saveErr THEN ErrDatabase ELSE OK
        IN  /\ InBounds(staged)
            /\ addrs' = Update(addrs, staged, err)
            /\ Record(Call("ExtendKeychain", FALSE, NoAddr, 0, 0, NilKey, 0, err, <<>>))
            /\ UNCHANGED <<config, crypt>>

NewAddress ==
    \E change \in BOOLEAN, saveErr \in BOOLEAN :
        LET r == NewAddressFn(addrs, change)
            err == IF r.err = OK /\ saveErr THEN ErrDatabase ELSE r.err
        IN  /\ InBounds(r.db)
            /\ addrs' = Update(addrs, r.db, err)
            /\ Record(Call("NewAddress", change, NoAddr, 0, 0, NilKey, 0, err, r.ret))
            /\ UNCHANGED <<config, crypt>>

CurrentAddress ==
    \E change \in BOOLEAN :
        LET r == CurrentAddressFn(addrs, change)
        IN  /\ Record(Call("CurrentAddress", change, NoAddr, 0, 0, NilKey, 0, r.err, r.ret))
            /\ UNCHANGED <<addrs, config, crypt>>

MarkAddressAsUsed ==
    \E addr \in Addresses, saveErr \in BOOLEAN :
        LET r == MarkAddressAsUsedFn(addrs, addr)
            err == IF r.err = OK /\ saveErr /\ r.db # addrs THEN ErrDatabase ELSE r.err
        IN  /\ InBounds(r.db)
            /\ addrs' = Update(addrs, r.db, err)
            /\ Record(Call("MarkAddressAsUsed", FALSE, addr, 0, 0, NilKey, 0, err, <<>>))
            /\ UNCHANGED <<config, crypt>>

\* ---------------------------------------------------- passphrase operations
SetPassphase ==
    \E pw \in Passphrases, salt \in Salts, iv \in IVs, saveErr \in BOOLEAN :
        LET r == SetPassphaseFn(coin, externalPrivkey, internalPrivkey, pw, salt, iv, saveErr)
        IN  /\ coin' = Update(coin, r.coin, r.err)
            /\ externalPrivkey' = r.ext
            /\ internalPrivkey' = r.int
            /\ passphrase' = IF r.err = OK THEN pw ELSE passphrase
            /\ armed' = IF r.err # OK THEN armed
                        ELSE IF IsEncrypted(externalPrivkey, internalPrivkey) THEN NoArm
                        ELSE [pw |-> pw, plain |-> coin.MasterPriv.bytes,
                              ext |-> externalPrivkey, int |-> internalPrivkey]
            /\ Record(Call("SetPassphase", FALSE, NoAddr, pw, 0, NilKey, 0, r.err, <<>>))
            /\ UNCHANGED <<addrs, config, timers, unlocked>>

ChangePassphrase ==
    \E old \in Passphrases, new \in Passphrases, salt \in Salts, iv \in IVs,
       saveErr \in BOOLEAN :
        LET r == ChangePassphraseFn(coin, externalPrivkey, internalPrivkey,
                                    old, new, salt, iv, saveErr)
        IN  /\ coin' = Update(coin, r.coin, r.err)
            /\ externalPrivkey' = r.ext
            /\ internalPrivkey' = r.int
            /\ passphrase' = IF r.err = OK THEN new ELSE passphrase
            /\ armed' = IF r.err = OK THEN NoArm ELSE armed
            /\ Record(Call("ChangePassphrase", FALSE, NoAddr, old, new, NilKey, 0, r.err, <<>>))
            /\ UNCHANGED <<addrs, config, timers, unlocked>>

RemovePassphrase ==
    \E pw \in Passphrases, saveErr \in BOOLEAN :
        LET r == RemovePassphraseFn(coin, externalPrivkey, internalPrivkey, pw, saveErr)
        IN  /\ coin' = Update(coin, r.coin, r.err)
            /\ externalPrivkey' = r.ext
            /\ internalPrivkey' = r.int
            /\ passphrase' = IF r.err = OK THEN 0 ELSE passphrase
            /\ unlocked' = IF r.ext # externalPrivkey THEN NoUnlock ELSE unlocked
            /\ Record(Call("RemovePassphrase", FALSE, NoAddr, pw, 0, NilKey, 0, r.err, <<>>))
            /\ UNCHANGED <<addrs, config, timers, armed>>

Unlock ==
    \E pw \in Passphrases, howLong \in Durations :
        LET r == UnlockFn(coin, externalPrivkey, internalPrivkey, pw)
        IN  /\ r.timer => Len(timers) < MaxTimers
            /\ externalPrivkey' = r.ext
            /\ internalPrivkey' = r.int
            /\ timers' = IF r.timer THEN Append(timers, timerDelay(howLong)) ELSE timers
            /\ unlocked' = IF r.err = OK THEN [d |-> howLong, elapsed |-> 0] ELSE unlocked
            /\ Record(Call("Unlock", FALSE, NoAddr, pw, 0, NilKey, howLong, r.err, <<>>))
            /\ UNCHANGED <<addrs, config, coin, passphrase, armed>>

\* The callback of time.AfterFunc runs once its duration has elapsed.
TimerFires ==
    \E i \in 1 .. Len(timers) :
        /\ timers[i] = 0
        /\ externalPrivkey' = zeroize(externalPrivkey, internalPrivkey).ext
        /\ internalPrivkey' = zeroize(externalPrivkey, internalPrivkey).int
        /\ timers' = [j \in 1 .. Len(timers) - 1 |-> IF j < i THEN timers[j] ELSE timers[j + 1]]
        /\ Record(Call("timer", FALSE, NoAddr, 0, 0, NilKey, 0, OK, <<>>))
        /\ UNCHANGED <<addrs, config, coin, unlocked, passphrase, armed>>

\* One unit of wall-clock time passes; a due timer fires before more time passes.
Tick ==
    /\ \A i \in 1 .. Len(timers) : timers[i] > 0
    /\ unlocked.d >= 0
    /\ unlocked.elapsed <= unlocked.d
    /\ timers' = [i \in 1 .. Len(timers) |-> timers[i] - 1]
    /\ unlocked' = [unlocked EXCEPT !.elapsed = @ + 1]
    /\ Record(Call("tick", FALSE, NoAddr, 0, 0, NilKey, 0, OK, <<>>))
    /\ UNCHANGED <<addrs, config, coin, externalPrivkey, internalPrivkey, passphrase, armed>>

KeyForAddress ==
    \E addr \in Addresses, accountPrivKey \in AccountKeys \cup {NilKey} :
        LET r == KeyForAddressFn(addrs, externalPrivkey, internalPrivkey, addr, accountPrivKey)
        IN  /\ Record(Call("KeyForAddress", FALSE, addr, 0, 0, accountPrivKey, 0, r.err, r.ret))
            /\ UNCHANGED <<addrs, config, crypt>>

Next ==
    \/ ExtendKeychain
    \/ NewAddress
    \/ CurrentAddress
    \/ MarkAddressAsUsed

Spec == Init /\ [][Next]_vars

SpecIssue == InitIssue /\ [][Next]_vars

NextCrypt ==
    \/ SetPassphase
    \/ ChangePassphrase
    \/ RemovePassphrase
    \/ Unlock
    \/ TimerFires
    \/ Tick
    \/ KeyForAddress

SpecCrypt == InitCrypt /\ [][NextCrypt]_vars

NextUpdate ==
    \/ NewAddress
    \/ ExtendKeychain
    \/ SetPassphase
    \/ ChangePassphrase
    \/ RemovePassphrase

\* The operations the keychain runs inside Database.Update, on their own.
SpecUpdate == InitCrypt /\ [][NextUpdate]_vars


\* -------------------------------------------------- wallet: the ingest loop
\* the accesses of a step, recorded when the history of lock use is kept
Accessed(A) == access' = IF track THEN A ELSE {}

ErrHexDecode == "encoding/hex: invalid byte"
ErrInsufficientFunds == "insufficient funds"
ErrTimeoutNotPassed == "timeout has not yet passed"

OwnedBy(infos, A) == {i \in DOMAIN infos : infos[i].Address \in DOMAIN A}
WatchedIn(infos, Wt) == {i \in DOMAIN infos : infos[i].Address \in Wt}

\* relevant and watched, as the loop computes them for the transaction
relevant(tx, A) == OwnedBy(tx.To, A) # {} \/ OwnedBy(tx.From, A) # {}
watched(tx, Wt) == WatchedIn(tx.To, Wt) # {} \/ WatchedIn(tx.From, Wt) # {}

flagInfosRelevantOnly(infos, A, Wt) ==
    [i \in DOMAIN infos |->
        [infos[i] EXCEPT !.IsRelevant = @ \/ infos[i].Address \in DOMAIN A]]

\* the transaction with the flags the loop sets on its outputs and inputs
flagInfos(infos, A, Wt) ==
    [i \in DOMAIN infos |->
        [infos[i] EXCEPT !.IsRelevant = @ \/ infos[i].Address \in DOMAIN A,
                         !.IsWatched = @ \/ infos[i].Address \in Wt]]

flagged(tx, A, Wt) ==
    [tx EXCEPT !.To = flagInfos(tx.To, A, Wt), !.From = flagInfos(tx.From, A, Wt)]

\* the outpoint of output i (counted from 1 here, from 0 in the outpoint)
outpointOf(tx, i) == <<hexDecodeString(tx.ID), i - 1>>

ingestUtxosAnyAddress(tx, A, U) ==
    LET new == {i \in DOMAIN tx.To : hexEncodeToString(outpointOf(tx, i)) \notin DOMAIN U}
        newKeys == {hexEncodeToString(outpointOf(tx, i)) : i \in new}
        U1 == [k \in DOMAIN U \cup newKeys |->
                 IF k \in DOMAIN U THEN U[k]
                 ELSE mockUtxo(k[1], tx.To[k[1][2] + 1].Address, tx.To[k[1][2] + 1].Amount)]
        spent == {hexEncodeToString(tx.From[j].ID) : j \in OwnedBy(tx.From, A)}
    IN Delete(U1, spent)

\* w.utxos after the loop handled tx: owned outputs not yet there are added
\* unconfirmed, then the outpoints spent by owned inputs are deleted
ingestUtxos(tx, A, U) ==
    LET new == {i \in OwnedBy(tx.To, A) : hexEncodeToString(outpointOf(tx, i)) \notin DOMAIN U}
        newKeys == {hexEncodeToString(outpointOf(tx, i)) : i \in new}
        U1 == [k \in DOMAIN U \cup newKeys |->
                 IF k \in DOMAIN U THEN U[k]
                 ELSE mockUtxo(k[1], tx.To[k[1][2] + 1].Address, tx.To[k[1][2] + 1].Amount)]
        spent == {hexEncodeToString(tx.From[j].ID) : j \in OwnedBy(tx.From, A)}
    IN Delete(U1, spent)

\* w.addrs after the loop handled tx: every owned paid address is marked used
ingestAddrs(tx, A) ==
    [a \in DOMAIN A |-> A[a] \/ \E i \in DOMAIN tx.To : tx.To[i].Address = a]

BalanceFn(U) ==
    <<SumValues({u \in Range(U) : u.height > 0}), SumValues({u \in Range(U) : u.height = 0})>>

\* the wallet lock: the loop holds it while it is blocked in a send
LockFree == loop.pc # "send"

\* The transactions the chain client delivers: tx 1 pays 1000 to the first
\* wallet address and tx 2 spends that output; tx 3 pays 500 to the first
\* wallet address; tx 4 pays 1000 to the watched address and tx 5 spends that
\* output; tx 6 pays 1000 to a foreign address; tx 9 has an id that is not hex.
IncomingTxs ==
    {Transaction(hexEncodeToString(1), <<>>, <<SpendInfo(<<>>, 1, 1000)>>),
     Transaction(hexEncodeToString(2), <<SpendInfo(<<1, 0>>, 1, 1000)>>, <<SpendInfo(<<>>, 201, 1000)>>),
     Transaction(hexEncodeToString(3), <<>>, <<SpendInfo(<<>>, 1, 500)>>),
     Transaction(hexEncodeToString(4), <<>>, <<SpendInfo(<<>>, 101, 1000)>>),
     Transaction(hexEncodeToString(5), <<SpendInfo(<<4, 0>>, 101, 1000)>>, <<SpendInfo(<<>>, 201, 1000)>>),
     Transaction(hexEncodeToString(6), <<>>, <<SpendInfo(<<>>, 201, 1000)>>),
     Transaction(<<9, "bad">>, <<>>, <<SpendInfo(<<>>, 1, 1000)>>)}

\* the payments the ingest behaviours deliver: one to the wallet, one to a
\* watched address, and the spend of the watched output
PaymentTxs == {tx \in IncomingTxs : hexDecodeString(tx.ID) \in {1, 4, 5}}

\* case tx := <-w.incoming, up to the first send on a subscription channel
IngestTx(tx) ==
    /\ loop.pc = "select"
    /\ IF ~hexDecodes(tx.ID)
       THEN /\ loop' = [LoopSelect EXCEPT !.pc = "returned"]
            /\ wlast' = WCall("IngestTx", 0, ErrHexDecode, tx.ID, NoRet)
            /\ UNCHANGED <<wAddrs, utxos, transactions>>
       ELSE LET t == flagged(tx, wAddrs, watchedAddrs)
                store == relevant(tx, wAddrs) \/ watched(tx, watchedAddrs)
                call == WCall("IngestTx", 0, OK, tx.ID,
                              [kind |-> "", expiry |-> 0, stored |-> store,
                               watchedOnly |-> WatchedIn(tx.To, watchedAddrs) # {} /\ ~relevant(tx, wAddrs),
                               balance |-> BalanceFn(utxos),
                               subs |-> IF store THEN Len(txSubs) ELSE 0])
            IN /\ wAddrs' = ingestAddrs(tx, wAddrs)
               /\ utxos' = ingestUtxos(tx, wAddrs, utxos)
               /\ transactions' = IF store THEN Put(transactions, tx.ID, t) ELSE transactions
               /\ loop' = IF store /\ Len(txSubs) > 0
                          THEN [pc |-> "send", tx |-> t, next |-> 1, subs |-> Len(txSubs), call |-> call]
                          ELSE LoopSelect
               /\ wlast' = call
    /\ spendCall' = touched(spendCall)
    /\ UNCHANGED <<watchedAddrs, txSubs, blockchainInfo, outgoing, dbTx, rnd, now, blockSubs, created, done, keychain>>
    /\ Accessed(IF hexDecodes(tx.ID)
                THEN Reads({"addrs", "utxos", "watchedAddrs"}, "exclusive")
                     \cup Writes(IF OwnedBy(tx.To, wAddrs) # {} THEN {"addrs"} ELSE {}, "exclusive")
                     \cup Writes(IF utxos' # utxos THEN {"utxos"} ELSE {}, "exclusive")
                     \cup Writes(IF transactions' # transactions THEN {"transactions"} ELSE {}, "exclusive")
                     \cup Reads(IF tx.ID \in DOMAIN transactions' THEN {"txSubs"} ELSE {}, "exclusive")
                ELSE {})

\* sub <- tx, with the lock held: it completes when the consumer receives
IngestSend ==
    /\ loop.pc = "send"
    /\ txSubs[loop.next].reads
    /\ txSubs' = [txSubs EXCEPT ![loop.next].got = @ \cup {loop.tx.ID}]
    /\ loop' = IF loop.next < loop.subs THEN [loop EXCEPT !.next = @ + 1] ELSE LoopSelect
    /\ wlast' = [loop.call EXCEPT !.op = "IngestSend"]
    /\ UNCHANGED <<wAddrs, utxos, transactions, watchedAddrs, blockchainInfo, outgoing,
                   dbTx, rnd, now, spendCall, blockSubs, created, done, keychain>>
    /\ Accessed(Reads({"txSubs"}, "exclusive"))

\* What the block case does to the block subscription channels: it sends on
\* none of them.  Each channel remembers the heights that arrived since it was
\* handed out.
blockSent(subs, height) ==
    [i \in DOMAIN subs |-> [subs[i] EXCEPT !.arrived = @ \cup {height}]]

\* case blockInfo := <-w.block
IngestBlock(height) ==
    /\ loop.pc = "select"
    /\ blockchainInfo' = height
    /\ transactions' = [id \in DOMAIN transactions |->
                          IF transactions[id].Height = 0
                          THEN [transactions[id] EXCEPT !.Height = height]
                          ELSE transactions[id]]
    /\ utxos' = [k \in DOMAIN utxos |->
                   IF utxos[k].height = 0 THEN [utxos[k] EXCEPT !.height = height] ELSE utxos[k]]
    /\ blockSubs' = blockSent(blockSubs, height)
    /\ wlast' = WOther
    /\ spendCall' = touched(spendCall)
    /\ UNCHANGED <<wAddrs, watchedAddrs, txSubs, outgoing, dbTx, loop, rnd, now, created, done, keychain>>
    /\ Accessed(Reads({"transactions", "utxos"}, "exclusive")
                \cup Writes({"transactions", "utxos"}, "exclusive"))

\* case <-w.done
IngestDone ==
    /\ loop.pc = "select"
    /\ done
    /\ loop' = [LoopSelect EXCEPT !.pc = "returned"]
    /\ wlast' = WOther
    /\ Accessed({})
    /\ UNCHANGED <<wAddrs, utxos, transactions, watchedAddrs, txSubs, blockSubs, blockchainInfo,
                   outgoing, dbTx, done, rnd, now, created, spendCall, keychain>>

\* ------------------------------------------------ wallet: plain operations
CloseWallet ==
    /\ ~done
    /\ done' = TRUE
    /\ wlast' = WOther
    /\ Accessed({})
    /\ UNCHANGED <<wAddrs, utxos, transactions, watchedAddrs, txSubs, blockSubs, blockchainInfo,
                   outgoing, dbTx, loop, rnd, now, created, spendCall, keychain>>

\* rand.Read: the next address, the next transaction id
randomAddress == rnd.addrs + 1
randomTxid == 10 + rnd.txids + 1

WalletCurrentAddress ==
    /\ LockFree
    /\ \/ \E a \in DOMAIN wAddrs :
            /\ ~wAddrs[a]
            /\ wlast' = WOther
            /\ UNCHANGED <<wAddrs, rnd, spendCall>>
       \/ /\ \A a \in DOMAIN wAddrs : wAddrs[a]
          /\ rnd.addrs < MaxAddrs
          /\ wAddrs' = Put(wAddrs, randomAddress, FALSE)
          /\ rnd' = [rnd EXCEPT !.addrs = @ + 1]
          /\ wlast' = WOther
          /\ spendCall' = touched(spendCall)
    /\ UNCHANGED <<utxos, transactions, watchedAddrs, txSubs, blockchainInfo, outgoing,
                   dbTx, loop, now, blockSubs, created, done, keychain>>
    /\ Accessed(Reads({"addrs"}, "exclusive")
                \cup Writes(IF wAddrs' # wAddrs THEN {"addrs"} ELSE {}, "exclusive"))

WalletNewAddress ==
    /\ LockFree
    /\ rnd.addrs < MaxAddrs
    /\ wAddrs' = Put(wAddrs, randomAddress, FALSE)
    /\ rnd' = [rnd EXCEPT !.addrs = @ + 1]
    /\ wlast' = WOther
    /\ spendCall' = touched(spendCall)
    /\ UNCHANGED <<utxos, transactions, watchedAddrs, txSubs, blockchainInfo, outgoing,
                   dbTx, loop, now, blockSubs, created, done, keychain>>
    /\ Accessed(Writes({"addrs"}, "exclusive"))

Balance ==
    /\ LockFree
    /\ wlast' = WCall("Balance", 0, OK, NoTxn.ID, [NoRet EXCEPT !.balance = BalanceFn(utxos)])
    /\ UNCHANGED <<wAddrs, utxos, transactions, watchedAddrs, txSubs, blockchainInfo,
                   outgoing, dbTx, loop, rnd, now, spendCall, blockSubs, created, done, keychain>>
    /\ Accessed(Reads({"utxos"}, "shared"))

\* HasKey looks the address up without taking the lock.
HasKey(addr) ==
    /\ wlast' = WCall("HasKey", 0, OK, NoTxn.ID, [NoRet EXCEPT !.stored = addr \in DOMAIN wAddrs])
    /\ Accessed(Reads({"addrs"}, "none"))
    /\ UNCHANGED <<wAddrs, utxos, transactions, watchedAddrs, txSubs, blockSubs, blockchainInfo,
                   outgoing, dbTx, loop, rnd, now, created, spendCall, done, keychain>>

\* The channel is unbuffered; its consumer either receives whatever is sent
\* or never reads.
SubscribeTransactions(reads) ==
    /\ Len(txSubs) < MaxSubs
    /\ txSubs' = Append(txSubs, [reads |-> reads, got |-> {}])
    /\ wlast' = WOther
    /\ UNCHANGED <<wAddrs, utxos, transactions, watchedAddrs, blockchainInfo, outgoing,
                   dbTx, loop, rnd, now, spendCall, blockSubs, created, done, keychain>>
    /\ Accessed(Reads({"txSubs"}, "none") \cup Writes({"txSubs"}, "none"))

\* The channel is unbuffered; got is what its consumer received, in order.
SubscribeBlocks(reads) ==
    /\ Len(blockSubs) < MaxSubs
    /\ blockSubs' = Append(blockSubs, [reads |-> reads, got |-> <<>>, arrived |-> {}])
    /\ wlast' = WOther
    /\ UNCHANGED <<wAddrs, utxos, transactions, watchedAddrs, txSubs, blockchainInfo, outgoing,
                   dbTx, loop, rnd, now, spendCall, created, done, keychain>>
    /\ Accessed(Reads({"blockSubs"}, "none") \cup Writes({"blockSubs"}, "none"))

\* ------------------------------------- wallet: operations on a database Tx
FeeLevels == {"economic", "normal", "priority"}
feeFor(feeLevel) ==
    CASE feeLevel = "economic" -> feeEconomic
      [] feeLevel = "normal" -> feeNormal
      [] feeLevel = "priority" -> feePriority

SpendAmounts == {250, 750}
PayTo == {201}

\* What the loop over the map w.utxos can select for a total of totalWithFee:
\* it stops at the first utxo that brings the total up to it, and takes every
\* utxo when the total stays below.  The map is walked in any order.
selections(U, totalWithFee) ==
    {S \in SUBSET Range(U) :
        \/ S = Range(U) /\ SumValues(S) < totalWithFee
        \/ /\ SumValues(S) >= totalWithFee
           /\ \E u \in S : SumValues(S \ {u}) < totalWithFee}

RECURSIVE inputsOf(_)
inputsOf(S) ==
    IF S = {} THEN <<>>
    ELSE LET u == CHOOSE x \in S : TRUE
         IN <<[SpendInfo(u.outpoint, u.address, u.value) EXCEPT !.IsRelevant = TRUE]>>
            \o inputsOf(S \ {u})

keysOf(S) == {hexEncodeToString(u.outpoint) : u \in S}

Snap ==
    [wAddrs |-> wAddrs, utxos |-> utxos, transactions |-> transactions,
     watchedAddrs |-> watchedAddrs, outgoing |-> outgoing]

\* What Spend leaves when the selection S covers amt + fee: the change
\* address is already in w.addrs, and the closure is on the Tx.
spendStaged(S, to, amt, feeLevel, A, hook, r) ==
    LET fee == feeFor(feeLevel)
        totalUtxo == SumValues(S)
        txidBytes == 10 + r.txids + 1
        hasChange == totalUtxo > amt + fee
        changeAddr == r.addrs + 1
        change == [SpendInfo(<<txidBytes, 1>>, changeAddr, totalUtxo - (amt + fee))
                     EXCEPT !.IsRelevant = TRUE]
        changeUtxo == mockUtxo(change.ID, change.Address, change.Amount)
        txn == [ID |-> hexEncodeToString(txidBytes), From |-> inputsOf(S),
                To |-> <<SpendInfo(<<txidBytes, 0>>, to, amt)>>
                       \o (IF hasChange THEN <<change>> ELSE <<>>),
                Height |-> 0]
    IN [err |-> OK, id |-> txn.ID,
        addrs |-> IF hasChange THEN Put(A, changeAddr, FALSE) ELSE A,
        onCommit |-> [kind |-> "Spend", txn |-> txn, del |-> keysOf(S),
                      add |-> IF hasChange THEN {changeUtxo} ELSE {}, addr |-> 0],
        rnd |-> [txids |-> r.txids + 1,
                 addrs |-> IF hasChange THEN r.addrs + 1 ELSE r.addrs]]

spendRefusedAfterStaging(S, to, amt, feeLevel, A, hook, r) ==
    [spendStaged(S, to, amt, feeLevel, A, hook, r) EXCEPT !.err = ErrInsufficientFunds]

\* What Spend leaves when the utxos do not cover amt + fee: it returns first.
spendRefused(S, to, amt, feeLevel, A, hook, r) ==
    [err |-> ErrInsufficientFunds, id |-> NoTxn.ID, addrs |-> A, onCommit |-> hook, rnd |-> r]

SpendFn(S, to, amt, feeLevel, A, hook, r) ==
    IF SumValues(S) < amt + feeFor(feeLevel)
    THEN spendRefused(S, to, amt, feeLevel, A, hook, r)
    ELSE spendStaged(S, to, amt, feeLevel, A, hook, r)

Spend(h, to, amt, feeLevel) ==
    /\ LockFree
    /\ dbTx[h].state = "open"
    /\ \E S \in selections(utxos, amt + feeFor(feeLevel)) :
        LET out == SpendFn(S, to, amt, feeLevel, wAddrs, dbTx[h].onCommit, rnd)
        IN /\ out.rnd.txids <= MaxTxns
           /\ out.rnd.addrs <= MaxAddrs
           /\ wAddrs' = out.addrs
           /\ rnd' = out.rnd
           /\ dbTx' = [dbTx EXCEPT ![h].onCommit = out.onCommit]
           /\ spendCall' = IF out.err = OK
                           THEN [h |-> h, id |-> out.id, amt |-> amt,
                                 fee |-> feeFor(feeLevel), clean |-> TRUE] @@ Snap
                           ELSE spendCall
           /\ wlast' = WCall("Spend", h, out.err, out.id, NoRet)
    /\ UNCHANGED <<utxos, transactions, watchedAddrs, txSubs, blockchainInfo, outgoing,
                   loop, now, blockSubs, created, done, keychain>>
    /\ Accessed(Reads({"utxos"}, "shared")
                \cup Writes(IF wAddrs' # wAddrs THEN {"addrs"} ELSE {}, "shared"))

sweepTxnFeeOnTop(S, to, feeLevel, txidBytes) ==
    [ID |-> hexEncodeToString(txidBytes), From |-> inputsOf(S),
     To |-> <<SpendInfo(<<txidBytes, 0>>, to, SumValues(S))>>, Height |-> 0]

\* the transaction SweepWallet builds from the utxos S it found in the map
sweepTxn(S, to, feeLevel, txidBytes) ==
    [ID |-> hexEncodeToString(txidBytes), From |-> inputsOf(S),
     To |-> <<SpendInfo(<<txidBytes, 0>>, to, SumValues(S) - feeFor(feeLevel))>>, Height |-> 0]

SweepWallet(h, to, feeLevel) ==
    /\ LockFree
    /\ dbTx[h].state = "open"
    /\ rnd.txids < MaxTxns
    /\ LET S == Range(utxos)
           txn == sweepTxn(S, to, feeLevel, randomTxid)
       IN /\ dbTx' = [dbTx EXCEPT ![h].onCommit =
                        [kind |-> "SweepWallet", txn |-> txn, del |-> keysOf(S),
                         add |-> {}, addr |-> 0]]
          /\ wlast' = WCall("SweepWallet", h, OK, txn.ID, [NoRet EXCEPT !.kind = feeLevel])
    /\ rnd' = [rnd EXCEPT !.txids = @ + 1]
    /\ UNCHANGED <<wAddrs, utxos, transactions, watchedAddrs, txSubs, blockchainInfo,
                   outgoing, loop, now, spendCall, blockSubs, created, done, keychain>>
    /\ Accessed(Reads({"utxos"}, "shared"))

WatchAddress(h, addr) ==
    /\ dbTx[h].state = "open"
    /\ dbTx' = [dbTx EXCEPT ![h].onCommit = [NoHook EXCEPT !.kind = "WatchAddress", !.addr = addr]]
    /\ wlast' = WOther
    /\ UNCHANGED <<wAddrs, utxos, transactions, watchedAddrs, txSubs, blockchainInfo,
                   outgoing, loop, rnd, now, spendCall, blockSubs, created, done, keychain>>
    /\ Accessed({})

\* ------------------------------------------------------- wallet: escrow
MultisigKeys == {<<1, 2>>, <<2, 1>>}
Thresholds == {1, 2}
TimeoutKeys == {3}

sha256Sum256(b) == <<"sha256", b>>

\* The redeem script: the keys in the order given, then the threshold (four
\* bytes; the thresholds here fit).  The address is the hash of the script.
CreateMultisigAddressSorted(keys, threshold) ==
    LET redeemScript == <<Min(Range(keys)), Max(Range(keys)), threshold>>
    IN [addr |-> hexEncodeToString(sha256Sum256(redeemScript)), redeemScript |-> redeemScript]

CreateMultisigAddressFn(keys, threshold) ==
    LET redeemScript == keys \o <<threshold>>
    IN [addr |-> hexEncodeToString(sha256Sum256(redeemScript)), redeemScript |-> redeemScript]

\* The history keeps one of the earlier multisig calls, any one of them.
Keep(call) ==
    \E prev \in {created.prev} \cup (IF created.last.op = "" THEN {} ELSE {created.last}) :
        created' = [prev |-> prev, last |-> call]

CreateMultisigAddress(keys, threshold) ==
    LET out == CreateMultisigAddressFn(keys, threshold)
    IN /\ Keep([NoMultisig EXCEPT !.op = "CreateMultisigAddress", !.keys = keys,
                                  !.threshold = threshold, !.addr = out.addr,
                                  !.redeemScript = out.redeemScript, !.at = now,
                                  !.addrs = Cardinality(DOMAIN wAddrs)])
       /\ wlast' = WOther
       /\ UNCHANGED <<wAddrs, utxos, transactions, watchedAddrs, txSubs, blockSubs,
                      blockchainInfo, outgoing, dbTx, loop, rnd, now, spendCall, done, keychain>>
       /\ Accessed({})

\* The redeem script: the keys, the threshold, the timeout key and, last, the
\* expiry computed from the time of the call.
CreateMultisigWithTimeoutFn(keys, threshold, timeout, timeoutKey, t) ==
    keys \o <<threshold, timeoutKey, t + timeout>>

expiryOf(redeemScript) == redeemScript[Len(redeemScript)]

CreateMultisigWithTimeout(keys, threshold, timeout, timeoutKey) ==
    LET redeemScript == CreateMultisigWithTimeoutFn(keys, threshold, timeout, timeoutKey, now)
    IN /\ Keep([NoMultisig EXCEPT !.op = "CreateMultisigWithTimeout", !.keys = keys,
                                  !.threshold = threshold, !.timeout = timeout,
                                  !.timeoutKey = timeoutKey,
                                  !.addr = hexEncodeToString(sha256Sum256(redeemScript)),
                                  !.redeemScript = redeemScript, !.at = now,
                                  !.addrs = Cardinality(DOMAIN wAddrs)])
       /\ wlast' = WOther
       /\ UNCHANGED <<wAddrs, utxos, transactions, watchedAddrs, txSubs, blockSubs,
                      blockchainInfo, outgoing, dbTx, loop, rnd, now, spendCall, done, keychain>>
       /\ Accessed({})

\* The release transactions a caller builds: they spend the escrow output
\* <<4, 0>> held by address 101 and pay 750 to a wallet or a foreign address.
EscrowTxns ==
    {Transaction(NoTxn.ID, <<SpendInfo(<<4, 0>>, 101, 1000)>>, <<SpendInfo(<<>>, a, 750)>>) :
        a \in {1, 201}}

\* the utxos the escrow hooks add: one per output paying a wallet address
utxosToAdd(txn, txidBytes, A) ==
    {mockUtxo(<<txidBytes, i - 1>>, txn.To[i].Address, txn.To[i].Amount) : i \in OwnedBy(txn.To, A)}

\* the closure of the escrow operations, with the random id they give txn
escrowHook(kind, txn, A, r) ==
    [kind |-> kind, txn |-> [txn EXCEPT !.ID = hexEncodeToString(10 + r.txids + 1)],
     del |-> {}, add |-> utxosToAdd(txn, 10 + r.txids + 1, A), addr |-> 0]

BuildAndSend(h, txn) ==
    /\ LockFree
    /\ dbTx[h].state = "open"
    /\ rnd.txids < MaxTxns
    /\ rnd' = [rnd EXCEPT !.txids = @ + 1]
    /\ dbTx' = [dbTx EXCEPT ![h].onCommit = escrowHook("BuildAndSend", txn, wAddrs, rnd)]
    /\ wlast' = WOther
    /\ UNCHANGED <<wAddrs, utxos, transactions, watchedAddrs, txSubs, blockchainInfo,
                   outgoing, loop, now, spendCall, blockSubs, created, done, keychain>>
    /\ Accessed(Reads({"addrs"}, "shared"))

\* What ReleaseFundsAfterTimeout leaves once the expiry has passed.
releaseStaged(txn, redeemScript, t, A, hook, r) ==
    [err |-> OK, onCommit |-> escrowHook("ReleaseFundsAfterTimeout", txn, A, r)]

releaseRefusedAfterStaging(txn, redeemScript, t, A, hook, r) ==
    [releaseStaged(txn, redeemScript, t, A, hook, r) EXCEPT !.err = ErrTimeoutNotPassed]

\* What it leaves before the expiry: it returns first.
releaseRefused(txn, redeemScript, t, A, hook, r) ==
    [err |-> ErrTimeoutNotPassed, onCommit |-> hook]

ReleaseFundsAfterTimeoutFn(txn, redeemScript, t, A, hook, r) ==
    IF expiryOf(redeemScript) > t
    THEN releaseRefused(txn, redeemScript, t, A, hook, r)
    ELSE releaseStaged(txn, redeemScript, t, A, hook, r)

ReleaseFundsAfterTimeout(h, txn, redeemScript) ==
    /\ LockFree
    /\ dbTx[h].state = "open"
    /\ rnd.txids < MaxTxns
    /\ rnd' = [rnd EXCEPT !.txids = @ + 1]
    /\ LET out == ReleaseFundsAfterTimeoutFn(txn, redeemScript, now, wAddrs, dbTx[h].onCommit, rnd)
       IN /\ dbTx' = [dbTx EXCEPT ![h].onCommit = out.onCommit]
          /\ wlast' = WCall("ReleaseFundsAfterTimeout", h, out.err,
                            hexEncodeToString(randomTxid),
                            [NoRet EXCEPT !.expiry = expiryOf(redeemScript)])
    /\ UNCHANGED <<wAddrs, utxos, transactions, watchedAddrs, txSubs, blockchainInfo,
                   outgoing, loop, now, spendCall, blockSubs, created, done, keychain>>
    /\ Accessed(IF wlast'.err = OK THEN Reads({"addrs"}, "shared") ELSE {})

TimePasses ==
    /\ now < MaxTime
    /\ now' = now + 1
    /\ UNCHANGED <<wAddrs, utxos, transactions, watchedAddrs, txSubs, blockchainInfo,
                   outgoing, dbTx, loop, rnd, wlast, spendCall, blockSubs, created, done, keychain>>
    /\ Accessed({})

\* --------------------------------------------- wallet: Commit and Rollback
\* the stores after the closure ran under the lock
hookAddrs(hook, A) ==
    [a \in DOMAIN A \cup {u.address : u \in hook.add} |->
        IF \E u \in hook.add : u.address = a THEN TRUE ELSE A[a]]

hookUtxosKeepsSpent(hook, U) ==
    [k \in DOMAIN U \cup keysOf(hook.add) |->
       IF k \in keysOf(hook.add)
       THEN CHOOSE u \in hook.add : hexEncodeToString(u.outpoint) = k
       ELSE U[k]]

hookUtxos(hook, U) ==
    LET kept == Delete(U, hook.del)
    IN [k \in DOMAIN kept \cup keysOf(hook.add) |->
          IF k \in keysOf(hook.add)
          THEN CHOOSE u \in hook.add : hexEncodeToString(u.outpoint) = k
          ELSE kept[k]]

hookTransactionsDropped(hook, T) == T

hookTransactions(hook, T) == Put(T, hook.txn.ID, hook.txn)

\* Commit makes the transaction durable and then runs its onCommit closure:
\* the closure takes the lock, changes the stores, releases the lock, sends
\* on outgoing and, for the escrow operations, on every subscription channel.
Commit(h) ==
    /\ dbTx[h].state = "open"
    /\ LET hook == dbTx[h].onCommit
           notifies == hook.kind \in {"BuildAndSend", "ReleaseFundsAfterTimeout"} /\ Len(txSubs) > 0
       IN /\ hook.kind # "nil" => LockFree
          /\ IF hook.kind \in {"Spend", "SweepWallet", "BuildAndSend", "ReleaseFundsAfterTimeout"}
             THEN /\ transactions' = hookTransactions(hook, transactions)
                  /\ utxos' = hookUtxos(hook, utxos)
                  /\ wAddrs' = hookAddrs(hook, wAddrs)
                  /\ outgoing' = Append(outgoing, hook.txn)
             ELSE UNCHANGED <<transactions, utxos, wAddrs, outgoing>>
          /\ watchedAddrs' = IF hook.kind = "WatchAddress"
                             THEN watchedAddrs \cup {hook.addr} ELSE watchedAddrs
          /\ dbTx' = [dbTx EXCEPT ![h] =
                        IF notifies
                        THEN [@ EXCEPT !.state = "notify", !.next = 1, !.subs = Len(txSubs)]
                        ELSE [@ EXCEPT !.state = "committed"]]
          /\ wlast' = WCall("Commit", h, OK, hook.txn.ID, [NoRet EXCEPT !.kind = hook.kind])
          /\ spendCall' = IF hook.kind = "Spend" /\ hook.txn.ID = spendCall.id
                          THEN spendCall ELSE touched(spendCall)
    /\ UNCHANGED <<txSubs, blockchainInfo, loop, rnd, now, blockSubs, created, done, keychain>>
    /\ Accessed(LET kind == dbTx[h].onCommit.kind
                IN IF kind = "nil" THEN {}
                   ELSE IF kind = "WatchAddress" THEN Writes({"watchedAddrs"}, "exclusive")
                   ELSE Writes({"transactions"}, "exclusive")
                        \cup Writes(IF dbTx[h].onCommit.del # {} \/ dbTx[h].onCommit.add # {}
                                    THEN {"utxos"} ELSE {}, "exclusive")
                        \cup Writes(IF dbTx[h].onCommit.add # {} THEN {"addrs"} ELSE {}, "exclusive")
                        \cup Reads(IF kind \in {"BuildAndSend", "ReleaseFundsAfterTimeout"}
                                   THEN {"txSubs"} ELSE {}, "none"))

\* sub <- txn in the closure of an escrow operation, after the lock was released
CommitSend(h) ==
    /\ dbTx[h].state = "notify"
    /\ txSubs[dbTx[h].next].reads
    /\ txSubs' = [txSubs EXCEPT ![dbTx[h].next].got = @ \cup {dbTx[h].onCommit.txn.ID}]
    /\ dbTx' = [dbTx EXCEPT ![h] =
                  IF @.next < @.subs THEN [@ EXCEPT !.next = @ + 1]
                  ELSE [@ EXCEPT !.state = "committed", !.next = 0, !.subs = 0]]
    /\ wlast' = WOther
    /\ UNCHANGED <<wAddrs, utxos, transactions, watchedAddrs, blockchainInfo, outgoing,
                   loop, rnd, now, spendCall, blockSubs, created, done, keychain>>
    /\ Accessed(Reads({"txSubs"}, "none"))

\* Rollback drops the closure.
Rollback(h) ==
    /\ dbTx[h].state = "open"
    /\ dbTx' = [dbTx EXCEPT ![h].state = "rolledback"]
    /\ wlast' = WCall("Rollback", h, OK, dbTx[h].onCommit.txn.ID,
                      [NoRet EXCEPT !.kind = dbTx[h].onCommit.kind])
    /\ UNCHANGED <<wAddrs, utxos, transactions, watchedAddrs, txSubs, blockchainInfo,
                   outgoing, loop, rnd, now, spendCall, blockSubs, created, done, keychain>>
    /\ Accessed({})

\* the host opens its next transaction
Begin(h) ==
    /\ dbTx[h].state \in {"committed", "rolledback"}
    /\ dbTx' = [dbTx EXCEPT ![h] = OpenTx]
    /\ spendCall' = NoSpend
    /\ wlast' = WOther
    /\ UNCHANGED <<wAddrs, utxos, transactions, watchedAddrs, txSubs, blockchainInfo,
                   outgoing, loop, rnd, now, blockSubs, created, done, keychain>>
    /\ Accessed({})

\* ------------------------------------------------------- wallet: behaviours
\* The stores under every operation that changes them: the chain client
\* delivers a payment to the wallet, a payment to a stranger and a spend of
\* the wallet's output, while the host spends, sweeps, watches and releases
\* escrows, committing or rolling back.
WalletTxs == {tx \in IncomingTxs : hexDecodeString(tx.ID) \in {1, 2, 6}}

NextWallet ==
    \/ \E tx \in WalletTxs : IngestTx(tx)
    \/ WalletCurrentAddress
    \/ \E h \in TxHandles, to \in PayTo : Spend(h, to, 250, "economic")
    \/ \E h \in TxHandles, to \in PayTo : SweepWallet(h, to, "economic")
    \/ \E h \in TxHandles, addr \in {101} : WatchAddress(h, addr)
    \/ \E h \in TxHandles, txn \in EscrowTxns : BuildAndSend(h, txn)
    \/ \E h \in TxHandles, txn \in EscrowTxns :
          ReleaseFundsAfterTimeout(h, txn, CreateMultisigWithTimeoutFn(<<1, 2>>, 1, 0, 3, 0))
    \/ \E h \in TxHandles : Commit(h)
    \/ \E h \in TxHandles : Rollback(h)
    \/ \E h \in TxHandles : Begin(h)

InitWallet == Init /\ ~externalOnly /\ ~disableMarkAsUsed /\ invalidChild = {}

SpecWallet == InitWallet /\ [][NextWallet]_vars

\* Spending: the wallet takes an address, is paid on it, and spends.
FundingTxs == {tx \in IncomingTxs : hexDecodeString(tx.ID) \in {1, 3}}

NextSpend ==
    \/ \E tx \in FundingTxs : IngestTx(tx)
    \/ WalletCurrentAddress
    \/ \E h \in TxHandles, to \in PayTo, amt \in SpendAmounts, feeLevel \in FeeLevels :
          Spend(h, to, amt, feeLevel)
    \/ \E h \in TxHandles : Commit(h)
    \/ \E h \in TxHandles : Rollback(h)
    \/ \E h \in TxHandles : Begin(h)

SpecSpend == InitWallet /\ [][NextSpend]_vars

\* Escrow: releases staged and committed while time passes and while
\* subscribers listen or do not.
NextEscrow ==
    \/ WalletCurrentAddress
    \/ \E reads \in BOOLEAN : SubscribeTransactions(reads)
    \/ \E h \in TxHandles, txn \in EscrowTxns : BuildAndSend(h, txn)
    \/ \E h \in TxHandles, txn \in EscrowTxns, timeout \in 0 .. MaxTime, t \in 0 .. now :
          ReleaseFundsAfterTimeout(h, txn, CreateMultisigWithTimeoutFn(<<1, 2>>, 1, timeout, 3, t))
    \/ TimePasses
    \/ \E h \in TxHandles : Commit(h)
    \/ \E h \in TxHandles : CommitSend(h)
    \/ \E h \in TxHandles : Rollback(h)
    \/ \E h \in TxHandles : Begin(h)

SpecEscrow == InitWallet /\ [][NextEscrow]_vars

\* Ingest: the chain client delivers transactions and blocks while addresses
\* are taken and watched and subscribers listen or do not.
NextIngest ==
    \/ \E tx \in PaymentTxs : IngestTx(tx)
    \/ IngestSend
    \/ \E height \in 1 .. MaxHeight : IngestBlock(height)
    \/ WalletCurrentAddress
    \/ Balance
    \/ \E reads \in BOOLEAN : SubscribeTransactions(reads)
    \/ \E h \in TxHandles, addr \in {101} : WatchAddress(h, addr)
    \/ \E h \in TxHandles : Commit(h)
    \/ \E h \in TxHandles : Begin(h)

SpecIngest == InitWallet /\ [][NextIngest]_vars

\* Blocks: the chain client delivers blocks and payments while the host
\* subscribes to blocks.  The loop is scheduled whenever it can take a step.
NextBlocks ==
    \/ \E tx \in PaymentTxs : IngestTx(tx)
    \/ \E height \in 1 .. MaxHeight : IngestBlock(height)
    \/ WalletCurrentAddress
    \/ \E reads \in BOOLEAN : SubscribeBlocks(reads)
    \/ \E h \in TxHandles, addr \in {101} : WatchAddress(h, addr)
    \/ \E h \in TxHandles : Commit(h)

SpecBlocks == InitWallet /\ [][NextBlocks]_vars /\ WF_vars(NextBlocks)

\* Multisig addresses: created again and again while time passes and the
\* wallet takes addresses and payments.
NextMultisig ==
    \/ \E keys \in MultisigKeys, threshold \in Thresholds : CreateMultisigAddress(keys, threshold)
    \/ \E keys \in MultisigKeys, threshold \in Thresholds, timeout \in 0 .. 1, timeoutKey \in TimeoutKeys :
          CreateMultisigWithTimeout(keys, threshold, timeout, timeoutKey)
    \/ TimePasses
    \/ WalletNewAddress

SpecMultisig == InitWallet /\ [][NextMultisig]_vars

\* Lock use: the operations that touch the stores, with what each step read
\* and wrote and how it held the lock.
NextLocks ==
    \/ \E tx \in FundingTxs : hexDecodeString(tx.ID) = 1 /\ IngestTx(tx)
    \/ IngestSend
    \/ WalletCurrentAddress
    \/ \E addr \in {1} : HasKey(addr)
    \/ SubscribeTransactions(TRUE)
    \/ \E h \in TxHandles, to \in PayTo : Spend(h, to, 250, "economic")
    \/ \E h \in TxHandles, txn \in EscrowTxns : txn.To[1].Address = 1 /\ BuildAndSend(h, txn)
    \/ \E h \in TxHandles : Commit(h)
    \/ \E h \in TxHandles : CommitSend(h)
    \/ \E h \in TxHandles : Begin(h)

SpecLocks == InitIssue /\ [][NextLocks]_vars

\* Two callers: each prepares a Spend or a SweepWallet on a Tx of its own and
\* commits it, in any order.
NextConcurrent ==
    \/ \E tx \in FundingTxs : IngestTx(tx)
    \/ WalletCurrentAddress
    \/ \E h \in ConcurrentTx, to \in PayTo : Spend(h, to, 250, "economic")
    \/ \E h \in ConcurrentTx, to \in PayTo : SweepWallet(h, to, "economic")
    \/ \E h \in ConcurrentTx : Commit(h)
    \/ \E h \in ConcurrentTx : Rollback(h)

SpecConcurrent == InitWallet /\ [][NextConcurrent]_vars

\* Shutdown: the chain client delivers payments, a transaction whose id is
\* not hex, and blocks, until the host closes the wallet.
ClosingTxs == {tx \in IncomingTxs : hexDecodeString(tx.ID) \in {1, 4, 9}}

NextClose ==
    \/ \E tx \in ClosingTxs : IngestTx(tx)
    \/ \E height \in 1 .. MaxHeight : IngestBlock(height)
    \/ IngestDone
    \/ CloseWallet
    \/ WalletCurrentAddress
    \/ \E h \in TxHandles, addr \in {101} : WatchAddress(h, addr)
    \/ \E h \in TxHandles : Commit(h)

SpecClose == InitWallet /\ [][NextClose]_vars

\* ------------------------------------------------------------------ claims
Succeeded(op) == last.op = op /\ last.err = OK

Stored(db, addr) == \E r \in db : r.Addr = addr

RecordOf(db, addr) == CHOOSE r \in db : r.Addr = addr

\* The unused records of a chain whose index is above every used index of it.
UnusedAhead(db, change) ==
    {r \in db : /\ r.Change = change
                /\ ~r.Used
                /\ \A u \in db : (u.Change = change /\ u.Used) => r.KeyIndex > u.KeyIndex}

\* C1: after any sequence of MarkAddressAsUsed and NewAddress calls followed by
\* an ExtendKeychain, the external chain, and the internal chain unless the
\* keychain is external-only, holds at least LookaheadWindowSize unused
\* records whose key_index is above the highest used key_index of the chain.
C1_LookAhead ==
    Succeeded("ExtendKeychain") =>
        /\ Cardinality(UnusedAhead(addrs, FALSE)) >= LookaheadWindowSize
        /\ ~externalOnly => Cardinality(UnusedAhead(addrs, TRUE)) >= LookaheadWindowSize

C1_Witness ==
    /\ Succeeded("ExtendKeychain")
    /\ \E r \in addrs : r.Used /\ r.Change
    /\ \E r \in addrs : r.Used /\ ~r.Change
    /\ \E r \in addrs : ~r.Change /\ r.KeyIndex > LookaheadWindowSize

\* The address is that of the record with the lowest key_index among the
\* unused records of the chain.
LowestUnused(db, change, addr) ==
    \E r \in db : /\ r.Addr = addr
                  /\ ~r.Used
                  /\ r.Change = change
                  /\ \A x \in db : (~x.Used /\ x.Change = change) => r.KeyIndex <= x.KeyIndex

C2_Current ==
    Succeeded("CurrentAddress") =>
        /\ LowestUnused(addrs, last.change, last.ret)
        /\ addrs = pre.addrs

\* Once the current address of a chain was marked as used, the chain's current
\* address has a strictly higher key_index.
C2_Advances ==
    \A change \in BOOLEAN :
        (CurrentAddressFn(pre.addrs, change).err = OK
            /\ CurrentAddressFn(pre.addrs, change).ret = last.addr) =>
        /\ CurrentAddressFn(addrs, change).err = OK
        /\ RecordOf(addrs, CurrentAddressFn(addrs, change).ret).KeyIndex
              > RecordOf(addrs, last.addr).KeyIndex

\* C2 as stated: CurrentAddress returns the lowest-index unused record of the
\* chain and changes nothing, so repeated calls agree; and after
\* MarkAddressAsUsed on that address the next CurrentAddress has a strictly
\* higher key_index.
C2_AsStated ==
    /\ C2_Current
    /\ Succeeded("MarkAddressAsUsed") => C2_Advances

\* C2 amended: the same, the advance after MarkAddressAsUsed being promised
\* only of a keychain that is not configured with DisableMarkAsUsed.
C2_CurrentAddress ==
    /\ C2_Current
    /\ (Succeeded("MarkAddressAsUsed") /\ ~disableMarkAsUsed) => C2_Advances

C2_Witness ==
    /\ Succeeded("MarkAddressAsUsed")
    /\ ~disableMarkAsUsed
    /\ CurrentAddressFn(pre.addrs, TRUE).ret = last.addr
    /\ RecordOf(addrs, CurrentAddressFn(addrs, TRUE).ret).KeyIndex > 1

\* C3: the address NewAddress returns has no address record before the call
\* and differs from every address an earlier NewAddress or CurrentAddress
\* call returned.
C3_NeverBeforeUsed ==
    Succeeded("NewAddress") =>
        /\ ~Stored(pre.addrs, last.ret)
        /\ last.ret \notin returned

\* C4: the record NewAddress(change) saves carries the change flag it was
\* asked for, is derived from that chain's public key, and has the key_index
\* after the highest one stored for that chain (when no derivation fails).
C4_RecordOnRequestedChain ==
    Succeeded("NewAddress") =>
        \E r \in addrs :
            /\ r.Addr = last.ret
            /\ r.Change = last.change
            /\ r.Addr = addrFunc(Child(IF last.change THEN internalPubkey ELSE externalPubkey,
                                       r.KeyIndex))
            /\ invalidChild = {} => r.KeyIndex = LastRecord(pre.addrs, last.change).KeyIndex + 1

KeysAbsent == externalPrivkey = NilKey /\ internalPrivkey = NilKey

KeysPresent == externalPrivkey # NilKey /\ internalPrivkey # NilKey

\* The duration of the last successful Unlock has elapsed, and no later call
\* has put keys in memory.
UnlockExpired == unlocked.d >= 0 /\ unlocked.elapsed > unlocked.d

\* C5: once the duration of a successful Unlock has elapsed, whatever was
\* called in between, the private keys in memory are nil and each
\* KeyForAddress call without an account private key fails with
\* ErrEncryptedKeychain.
C5_UnlockExpiry ==
    UnlockExpired =>
        /\ KeysAbsent
        /\ \A r \in addrs :
              KeyForAddressFn(addrs, externalPrivkey, internalPrivkey, r.Addr, NilKey).err
                  = ErrEncryptedKeychain
        /\ (last.op = "KeyForAddress" /\ last.acct = NilKey /\ Stored(addrs, last.addr))
              => last.err = ErrEncryptedKeychain

C5_Witness ==
    /\ UnlockExpired
    /\ unlocked.d > 0
    /\ last.op = "KeyForAddress"
    /\ last.acct = NilKey
    /\ last.err = ErrEncryptedKeychain

\* C6: Unlock, RemovePassphrase and ChangePassphrase called on a locked
\* encrypted keychain with another passphrase than the one it was encrypted
\* with return the invalid-passphrase error and leave the coin record and the
\* (nil) private keys in memory as they were.
C6_WrongPassphrase ==
    (/\ last.op \in {"Unlock", "RemovePassphrase", "ChangePassphrase"}
     /\ pre.coin.EncryptedMasterKey
     /\ pre.ext = NilKey
     /\ pre.int = NilKey
     /\ last.pw # pre.pass) =>
        /\ last.err = ErrInvalidPassphrase
        /\ coin = pre.coin
        /\ KeysAbsent

\* C7: with no private keys in memory, KeyForAddress on a stored address fails
\* with ErrEncryptedKeychain when no account private key is passed, and with
\* one it returns the child at the record's index of that key's chain for the
\* record's change flag, the keys in memory staying absent.
C7_KeyForAddress ==
    (/\ last.op = "KeyForAddress"
     /\ pre.ext = NilKey
     /\ pre.int = NilKey
     /\ Stored(addrs, last.addr)) =>
        LET record == RecordOf(addrs, last.addr)
        IN  /\ last.acct = NilKey => last.err = ErrEncryptedKeychain
            /\ last.acct # NilKey =>
                  /\ last.err = OK
                  /\ last.ret = Child(Child(last.acct, IF record.Change THEN 1 ELSE 0),
                                      record.KeyIndex)
            /\ KeysAbsent

C7_Witness ==
    /\ last.op = "KeyForAddress"
    /\ pre.ext = NilKey
    /\ pre.int = NilKey
    /\ last.acct # NilKey
    /\ Stored(addrs, last.addr)
    /\ RecordOf(addrs, last.addr).Change
    /\ last.err = OK

\* C8: in every state the private keys are in memory iff the coin record is
\* not encrypted or an Unlock period is active (its timer is pending).
C8_KeysIffUnencryptedOrUnlocked ==
    KeysPresent <=> (~coin.EncryptedMasterKey \/ timers # <<>>)

\* C9: SetPassphase(pw) on an unencrypted keychain followed by
\* RemovePassphrase(pw) leaves the coin record unencrypted with the plaintext
\* master private key it had, and the private keys in memory that were held
\* before SetPassphase.
C9_RoundTrip ==
    (Succeeded("RemovePassphrase") /\ armed.pw = last.pw) =>
        /\ ~coin.EncryptedMasterKey
        /\ coin.MasterPriv = [b64 |-> FALSE, bytes |-> armed.plain]
        /\ externalPrivkey = armed.ext
        /\ internalPrivkey = armed.int

C9_Witness ==
    /\ Succeeded("RemovePassphrase")
    /\ armed.pw = last.pw
    /\ pre.coin.EncryptedMasterKey
    /\ pre.coin.Salt = 1

\* C10: when an operation run inside Database.Update returns an error, the
\* address records and the coin record are what they were before it.
C10_CommitAtomicity ==
    (/\ last.op \in {"NewAddress", "ExtendKeychain", "SetPassphase",
                     "ChangePassphrase", "RemovePassphrase"}
     /\ last.err # OK) =>
        /\ addrs = pre.addrs
        /\ coin = pre.coin

C10_Witness ==
    /\ last.op = "ChangePassphrase"
    /\ last.err = ErrDatabase
    /\ pre.coin.EncryptedMasterKey
    /\ coin = pre.coin

\* ---------------------------------------------------------- wallet claims
\* the stores of the wallet, as Spend found them
StoresAsBeforeSpend ==
    /\ wAddrs = spendCall.wAddrs
    /\ utxos = spendCall.utxos
    /\ transactions = spendCall.transactions
    /\ watchedAddrs = spendCall.watchedAddrs
    /\ outgoing = spendCall.outgoing

\* C11: when the Tx passed to Spend is rolled back, the addresses, utxos,
\* transactions and watched addresses of the wallet are what they were before
\* Spend was called, and nothing was sent on outgoing.
C11_RollbackRestores ==
    (wlast.op = "Rollback" /\ wlast.ret.kind = "Spend" /\ wlast.id = spendCall.id /\ spendCall.clean)
        => StoresAsBeforeSpend

\* C12: a transaction built by Spend that was sent on outgoing is in the
\* transaction store with the same inputs and outputs, and a transaction
\* whose Tx is still open was not sent.
C12_BroadcastAfterCommit ==
    /\ \A i \in DOMAIN outgoing :
          /\ outgoing[i].ID \in DOMAIN transactions
          /\ transactions[outgoing[i].ID].From = outgoing[i].From
          /\ transactions[outgoing[i].ID].To = outgoing[i].To
    /\ \A h \in TxHandles :
          (dbTx[h].state = "open" /\ dbTx[h].onCommit.kind = "Spend")
              => \A i \in DOMAIN outgoing : outgoing[i].ID # dbTx[h].onCommit.txn.ID

C12_Witness ==
    /\ wlast.op = "Commit" /\ wlast.ret.kind = "Spend"
    /\ \E i \in DOMAIN outgoing : outgoing[i].ID = wlast.id

SpendCommitted == wlast.op = "Commit" /\ wlast.ret.kind = "Spend" /\ wlast.id = spendCall.id

changeOf(txn) == IF Len(txn.To) > 1 THEN txn.To[2].Amount ELSE 0

C14_RefusedSpendStagesNothing ==
    [][/\ (wlast'.op = "Spend" /\ wlast'.err = ErrInsufficientFunds)
            => UNCHANGED <<wAddrs, utxos, transactions, watchedAddrs, outgoing, dbTx, txSubs>>
       /\ (/\ wlast.op = "Spend" /\ wlast.err = ErrInsufficientFunds
           /\ dbTx[wlast.h].onCommit = NoHook
           /\ wlast'.op = "Commit" /\ wlast'.h = wlast.h)
            => UNCHANGED <<wAddrs, utxos, transactions, watchedAddrs, outgoing, txSubs>>]_vars

C14_Witness ==
    /\ wlast.op = "Spend" /\ wlast.err = ErrInsufficientFunds
    /\ utxos # EmptyMap
    /\ dbTx[wlast.h].onCommit = NoHook

Refused(call) == call.op = "ReleaseFundsAfterTimeout" /\ call.err = ErrTimeoutNotPassed

\* C15: ReleaseFundsAfterTimeout called before the expiry in the redeem script
\* fails with "timeout has not yet passed", and only then; the failed call
\* leaves the stores, the subscription channels and the closure of the Tx as
\* they were, so that committing a Tx that holds no closure afterwards adds no
\* utxo, stores no transaction and sends nothing.
C15_EarlyReleaseStagesNothing ==
    [][/\ (wlast'.op = "ReleaseFundsAfterTimeout" /\ rnd' # rnd)
            => /\ Refused(wlast') <=> wlast'.ret.expiry > now
               /\ Refused(wlast')
                    => UNCHANGED <<wAddrs, utxos, transactions, watchedAddrs, outgoing, dbTx, txSubs>>
       /\ (/\ Refused(wlast) /\ dbTx[wlast.h].onCommit = NoHook
           /\ wlast'.op = "Commit" /\ wlast'.h = wlast.h)
            => UNCHANGED <<wAddrs, utxos, transactions, watchedAddrs, outgoing, txSubs>>]_vars

C15_Witness ==
    /\ Refused(wlast)
    /\ now > 0
    /\ dbTx[wlast.h].onCommit = NoHook
    /\ Len(txSubs) > 0
    /\ DOMAIN wAddrs # {}

\* the loop took a transaction off w.incoming and got past the id check
Ingested == wlast.op \in {"IngestTx", "IngestSend"} /\ wlast.err = OK

\* C16: an incoming transaction that pays a watched address, and neither pays
\* nor spends from an address of the wallet, is stored with IsWatched set on
\* the outputs paying watched addresses; the balance is what it was; and when
\* the loop is back in select every subscription channel has been sent it.
C16_WatchedOnlyTransaction ==
    (Ingested /\ wlast.ret.watchedOnly) =>
        /\ wlast.id \in DOMAIN transactions
        /\ LET txn == transactions[wlast.id]
           IN /\ \E i \in DOMAIN txn.To : txn.To[i].IsWatched
              /\ \A i \in DOMAIN txn.To :
                    /\ txn.To[i].Address \in watchedAddrs => txn.To[i].IsWatched
                    /\ ~txn.To[i].IsRelevant
        /\ BalanceFn(utxos) = wlast.ret.balance
        /\ loop.pc = "select" => \A i \in 1 .. wlast.ret.subs : wlast.id \in txSubs[i].got

C16_Witness ==
    /\ Ingested /\ wlast.ret.watchedOnly
    /\ loop.pc = "select"
    /\ wlast.ret.subs > 0
    /\ DOMAIN utxos # {}

\* C19: a stored transaction stays stored with the inputs and outputs it was
\* stored with, and its height changes only from 0 to a positive height.
C19_StoredTransactionImmutable ==
    [][\A id \in DOMAIN transactions :
          /\ id \in DOMAIN transactions'
          /\ transactions'[id].From = transactions[id].From
          /\ transactions'[id].To = transactions[id].To
          /\ \/ transactions'[id].Height = transactions[id].Height
             \/ transactions[id].Height = 0 /\ transactions'[id].Height > 0]_vars

\* C20: a subscription channel that is never read blocks nothing: while there
\* is one, the wallet lock is free or is held by a loop whose pending send has
\* a consumer, so that the loop goes on to later transactions and blocks and
\* Balance, Spend and the commit closures get the lock.
C20_SlowConsumerBlocksNothing ==
    (\E i \in DOMAIN txSubs : ~txSubs[i].reads)
        => (LockFree \/ txSubs[loop.next].reads)

\* a transaction with an input or an output that is flagged relevant or
\* watched, or whose address the wallet owns or watches
Interesting(txn) ==
    \E info \in Range(txn.From) \cup Range(txn.To) :
        \/ info.IsRelevant
        \/ info.IsWatched
        \/ info.Address \in DOMAIN wAddrs
        \/ info.Address \in watchedAddrs

\* C17: a transaction is in the store if and only if one of its inputs or
\* outputs is relevant or watched: every stored transaction is, and every
\* transaction the loop found relevant or watched is stored.
C17_StoredIffRelevantOrWatched ==
    /\ \A id \in DOMAIN transactions : Interesting(transactions[id])
    /\ (wlast.op = "IngestTx" /\ wlast.err = OK)
          => (wlast.ret.stored <=> wlast.id \in DOMAIN transactions)

\* C18: every utxo in the store is held by an address of the wallet.
C18_UtxoAddressOwned ==
    \A k \in DOMAIN utxos : utxos[k].address \in DOMAIN wAddrs

C18_Witness ==
    /\ \E k \in DOMAIN utxos : utxos[k].outpoint[1] > 10 /\ utxos[k].address > 1
    /\ \E k \in DOMAIN utxos : utxos[k].outpoint[1] > 10 /\ utxos[k].address = 1

\* C21: every block that arrives after SubscribeBlocks handed out a channel
\* is eventually received by the consumer reading that channel.
C21_BlocksDelivered ==
    \A i \in 1 .. MaxSubs, height \in 1 .. MaxHeight :
        (i \in DOMAIN blockSubs /\ blockSubs[i].reads /\ height \in blockSubs[i].arrived)
            ~> (i \in DOMAIN blockSubs /\ height \in Range(blockSubs[i].got))

SameCall(op) ==
    /\ created.prev.op = op
    /\ created.last.op = op
    /\ created.prev.keys = created.last.keys
    /\ created.prev.threshold = created.last.threshold
    /\ created.prev.timeout = created.last.timeout
    /\ created.prev.timeoutKey = created.last.timeoutKey

\* C22: two calls of CreateMultisigAddress with the same keys in the same
\* order and the same threshold return the same address and the same redeem
\* script, whatever the time and the wallet state of each call; and the redeem
\* script of a call begins with the keys in the order supplied.
C22_MultisigDeterministic ==
    /\ SameCall("CreateMultisigAddress") =>
          /\ created.prev.addr = created.last.addr
          /\ created.prev.redeemScript = created.last.redeemScript
    /\ created.last.op = "CreateMultisigAddress" =>
          SubSeq(created.last.redeemScript, 1, Len(created.last.keys)) = created.last.keys

C22_Witness ==
    /\ SameCall("CreateMultisigAddress")
    /\ created.last.keys = <<2, 1>>
    /\ created.prev.at # created.last.at
    /\ created.prev.addrs # created.last.addrs

\* C23: two calls of CreateMultisigWithTimeout with the same keys, threshold,
\* timeout and timeout key return the same address and the same redeem script,
\* whatever the time of each call.
C23_TimeoutFromDurationAlone ==
    SameCall("CreateMultisigWithTimeout") =>
        /\ created.prev.addr = created.last.addr
        /\ created.prev.redeemScript = created.last.redeemScript

C25_StoresGuardedByLock ==
    \A a \in access :
        /\ a.kind = "write" => a.mode = "exclusive"
        /\ a.kind = "read" => a.mode # "none"

\* the key indices stored for a chain
IndicesOf(db, change) == {r.KeyIndex : r \in {x \in db : x.Change = change}}

\* C26: for each chain there is at most one address record per key index, and
\* the key indices stored for the chain are 0 .. N-1 for some N.
C26_ContiguousPrefix ==
    \A change \in BOOLEAN :
        /\ \A r1, r2 \in addrs :
              (r1.Change = change /\ r2.Change = change /\ r1.KeyIndex = r2.KeyIndex) => r1 = r2
        /\ IndicesOf(addrs, change) = 0 .. (Cardinality(IndicesOf(addrs, change)) - 1)

\* the records an operation started from, with the address it marked as used
MarkedBase ==
    IF last.op = "MarkAddressAsUsed"
    THEN Save(pre.addrs, [RecordOf(pre.addrs, last.addr) EXCEPT !.Used = TRUE])
    ELSE pre.addrs

\* the number of records createNewKeys is asked for on a chain of db
Requested(db, change) ==
    LET w == getLookaheadWindows(db)
        unused == IF change THEN w.internalUnused ELSE w.externalUnused
    IN IF (change /\ externalOnly) \/ unused >= LookaheadWindowSize THEN 0
       ELSE LookaheadWindowSize - unused

\* C27: no address record is stored at an index of a chain whose derivation
\* fails; an operation that extends the keychain creates on each chain the
\* number of records the look-ahead window asks for, skipped indices
\* notwithstanding; and NewAddress(false) returns and stores the address of the
\* first index after the last record of the external chain that derives.
C27_InvalidChildSkipped ==
    /\ \A r \in addrs : <<(IF r.Change THEN 1 ELSE 0), r.KeyIndex>> \notin invalidChild
    /\ (last.op \in {"ExtendKeychain", "MarkAddressAsUsed"} /\ last.err = OK /\ ~disableMarkAsUsed) =>
          \A change \in BOOLEAN :
              Cardinality({r.Addr : r \in {x \in addrs : x.Change = change}}
                              \ {r.Addr : r \in MarkedBase})
                  = Requested(MarkedBase, change)
    /\ (Succeeded("NewAddress") /\ ~last.change) =>
          LET index == nextValidIndex(externalPubkey, LastRecord(pre.addrs, FALSE).KeyIndex + 1)
          IN /\ last.ret = <<0, index>>
             /\ \E r \in addrs : r.Addr = last.ret /\ r.KeyIndex = index /\ ~r.Change

C27_Witness ==
    /\ invalidChild # {}
    /\ Succeeded("MarkAddressAsUsed")
    /\ \E r \in addrs \ pre.addrs :
          /\ r.KeyIndex = 4
          /\ <<(IF r.Change THEN 1 ELSE 0), 3>> \in invalidChild
          /\ Requested(MarkedBase, r.Change) > 0

\* C28: after a successful ChangePassphrase(old, new) with old # new, Unlock(new)
\* succeeds and yields the keys Unlock(old) yielded before the change,
\* Unlock(old) fails, and the coin record is encrypted; and ChangePassphrase on
\* a keychain whose private keys are in memory fails and changes nothing.
C28_ChangePassphrase ==
    /\ (Succeeded("ChangePassphrase") /\ last.pw # last.pw2) =>
          LET before == UnlockFn(pre.coin, pre.ext, pre.int, last.pw)
              withNew == UnlockFn(coin, externalPrivkey, internalPrivkey, last.pw2)
              withOld == UnlockFn(coin, externalPrivkey, internalPrivkey, last.pw)
          IN /\ before.err = OK
             /\ withNew.err = OK
             /\ withNew.ext = before.ext /\ withNew.int = before.int
             /\ withNew.ext # NilKey /\ withNew.int # NilKey
             /\ withOld.err # OK
             /\ withOld.ext = NilKey /\ withOld.int = NilKey
             /\ coin.EncryptedMasterKey
    /\ (last.op = "ChangePassphrase" /\ (pre.ext # NilKey \/ pre.int # NilKey)) =>
          /\ last.err # OK
          /\ coin = pre.coin
          /\ externalPrivkey = pre.ext /\ internalPrivkey = pre.int

C28_Witness ==
    /\ Succeeded("ChangePassphrase")
    /\ last.pw # last.pw2
    /\ pre.coin.EncryptedMasterKey
    /\ coin.MasterPriv # pre.coin.MasterPriv

\* C29: an address record that is marked used stays stored and marked used.
C29_UsedMonotonic ==
    [][\A r \in addrs : r.Used => \E x \in addrs' : x.Addr = r.Addr /\ x.Used]_vars

\* C30: when a Tx commits, the transaction of a Spend that succeeded on that
\* Tx is in the transaction store, whatever else was staged on the Tx after it.
C30_EveryStagedOperationApplied ==
    (wlast.op = "Commit" /\ spendCall.h = wlast.h /\ spendCall.id # NoTxn.ID)
        => spendCall.id \in DOMAIN transactions

\* the outpoints a stored transaction spends
Inputs(txn) == {txn.From[i].ID : i \in DOMAIN txn.From}

\* the transactions the wallet built itself (their ids are drawn at random)
Built == {id \in DOMAIN transactions : hexDecodeString(id) > 10}

\* C31: no two transactions that Spend or SweepWallet built and that were
\* committed spend the same utxo.
C31_NoDoubleSpend ==
    \A id1, id2 \in Built :
        id1 # id2 => Inputs(transactions[id1]) \cap Inputs(transactions[id2]) = {}

\* C32: at most one zeroize timer is pending; while one is pending the coin
\* record is encrypted and the keys of the Unlock that scheduled it are in
\* memory; and a timer that fired did so on an encrypted coin record.
C32_TimerEndsItsOwnUnlock ==
    /\ Len(timers) <= 1
    /\ timers # <<>> =>
          /\ coin.EncryptedMasterKey
          /\ externalPrivkey # NilKey /\ internalPrivkey # NilKey
          /\ unlocked.d >= 0
    /\ last.op = "timer" =>
          /\ pre.coin.EncryptedMasterKey /\ coin.EncryptedMasterKey
          /\ externalPrivkey = NilKey /\ internalPrivkey = NilKey

C32_Witness ==
    /\ last.op = "timer"
    /\ pre.ext # NilKey /\ externalPrivkey = NilKey
    /\ armed # NoArm

\* C33: an outpoint that a committed Spend took from the utxo store (it is an
\* input of the stored transaction the wallet built) is not in the utxo store.
C33_SpentStaysSpent ==
    \A id \in Built :
        \A k \in Inputs(transactions[id]) : hexEncodeToString(k) \notin DOMAIN utxos

\* C34: the loop started by Start has returned only if CloseWallet was called.
C34_LoopRunsUntilClosed == loop.pc = "returned" => done

====
